---- MODULE Spec2Model ----
(***************************************************************************)
(* A model of github.com/lattesec/log: the handler engine (BaseHandler),   *)
(* the writer and file handlers with the path-keyed registry of shared     *)
(* file handlers, the process-wide cleanup registry, the Logger and its    *)
(* builder.                                                                *)
(*                                                                         *)
(* Objects are records, one per instance; an operation of the library is   *)
(* an operator from the world before the call to the world after it and    *)
(* the value returned, and an action applies one operation.  The handler   *)
(* engine is modelled a second time statement by statement (the H_* and    *)
(* W_* actions) for the properties that depend on the interleaving of      *)
(* Handle, Start, Close and the delivery worker.                           *)
(***************************************************************************)
EXTENDS Integers, Sequences, FiniteSets, TLC

\* ------------------------------------------------------------------ levels
TRACE == 0
DEBUG == 1
INFO == 2
WARN == 3
ERROR == 4
QUIET == 5

Levels == TRACE..QUIET

\* ------------------------------------------------------------------ errors
\* An error value is the sequence of the sentinel errors joined in it
\* (errors.Join); the empty sequence is nil.
Nil == <<>>
ErrNotStarted == <<"ErrNotStarted">>
ErrAlreadyStarted == <<"ErrAlreadyStarted">>
ErrInvalidLogHandler == <<"ErrInvalidLogHandler">>
ErrInvalidLogLevel == <<"ErrInvalidLogLevel">>
ErrInvalidMaxFileSize == <<"ErrInvalidMaxFileSize">>
ErrMissingLogFilename == <<"ErrMissingLogFilename">>
ErrSkipClose == <<"ErrSkipClose">>
ErrFoundDirWhenExpectingFile == <<"ErrFoundDirWhenExpectingFile">>
\* fmt.Errorf("failed to open log file: %w", err)
FailedToOpen(err) == <<"failed to open log file">> \o err

Join(e1, e2) == e1 \o e2

\* ------------------------------------------------------------------ bounds
MaxMsgs == 1
MaxOwners == 3
MaxHandles == 2
MaxCloses == 3
MaxIds == 4
MaxSends == 1026
MaxDeliveries == 2
MaxBuilds == 3

\* ---------------------------------------------------------------- universe
LogChCap == 1024
DefaultMaxFileSize == 1048576

StdoutH == "stdout"
StderrH == "stderr"
Writers == {"w1", "w2", StdoutH, StderrH}
FileInsts == {"f1", "f2"}
HandlerIds == Writers \cup FileInsts
Paths == {"a.log"}
LoggerIds == {"L1", "L2", "L3"}
NoHandler == "none"
NoDefault == "nil"
NoPath == ""
Free == "free"

\* The rotated archives of a log file: its siblings <name>-<UTC time>.gz.
ArchivesOf(p) == IF p = "a.log" THEN "a.log-*.gz" ELSE NoPath

Kind(h) == IF h \in FileInsts THEN "file" ELSE "writer"

\* len(b.Subprocesses): the file handler runs logRotater, the writer nothing.
NumSubprocesses(h) == IF Kind(h) = "file" THEN 1 ELSE 0

VARIABLES
  hnd,           \* [HandlerIds -> handler object]
  cleanupIdGen,  \* cleanup.go: the id counter
  cleanupFns,    \* cleanup.go: id -> the handler whose closing callback it holds
  fileHandlers,  \* file_handler.go: path -> handler instance (NoHandler: no entry)
  sinks,         \* what has been written: per writer handler, per file path
  logger,        \* [LoggerIds -> logger object]
  obs,           \* per handler: Handle and Close calls made, messages accepted and
                 \* delivered, acquisitions not yet closed
  nextMsg,       \* the number of messages created so far
  mu,            \* per handler: the goroutine that holds b.mu for writing, or Free
  thr,           \* per goroutine: the call it is in and where it stands in it
  logMsgPool,    \* pool.go: the released message objects the pool holds
  defaultLogger, \* log.go: the registered default logger (NoDefault: nil)
  ret            \* the operation of the last step and what it returned

vars ==
  <<hnd, cleanupIdGen, cleanupFns, fileHandlers, sinks, logger, obs, nextMsg, mu, thr,
    logMsgPool, defaultLogger, ret>>

\* A handler object as constructed (NewWriterHandler, newFileHandler) and not started.
NewHandler ==
  [ running |-> FALSE, ctxDone |-> FALSE, logCh |-> <<>>, chState |-> "nil",
    wg |-> 0, cleanupId |-> 0, live |-> {},
    alloc |-> FALSE, path |-> NoPath, filePtr |-> FALSE, maxFileSize |-> 0,
    release |-> FALSE, onReleaseDone |-> FALSE, count |-> 0,
    logDir |-> <<>>, logFilename |-> <<>>, hookPanics |-> FALSE, muFile |-> Free,
    hasHandleFunc |-> TRUE, isDir |-> FALSE ]

NewObs ==
  [ handleCalls |-> 0, closeCalls |-> 0, accepted |-> <<>>, delivered |-> <<>>, owners |-> 0,
    cbRuns |-> 0 ]

\* The part of the state the library's operations work on.
World ==
  [ h |-> hnd, gen |-> cleanupIdGen, fns |-> cleanupFns, reg |-> fileHandlers,
    sinks |-> sinks, obs |-> obs ]

Apply(W) ==
  /\ hnd' = W.h
  /\ cleanupIdGen' = W.gen
  /\ cleanupFns' = W.fns
  /\ fileHandlers' = W.reg
  /\ sinks' = W.sinks
  /\ obs' = W.obs

\* -------------------------------------------------------- cleanup registry
\* registerCleanup: the next id, stored in the map.
registerCleanup(W, h) ==
  LET id == W.gen + 1
  IN [ W EXCEPT !.gen = id,
                !.fns = [ i \in (DOMAIN W.fns) \cup {id} |-> IF i = id THEN h ELSE W.fns[i] ],
                !.h[h].cleanupId = id,
                !.obs[h].cbRuns = 0 ]

\* unregisterCleanup: delete(cleanupFns, id).
unregisterCleanup(W, id) ==
  [ W EXCEPT !.fns = [ i \in (DOMAIN W.fns) \ {id} |-> W.fns[i] ] ]

\* -------------------------------------------------------------- the hooks
SinkOf(W, h) == IF Kind(h) = "file" THEN W.h[h].path ELSE h

\* HandleFunc: the writer handler prints the rendered message to its writer; the
\* file handler panics on a nil filePtr (recovered by noPanicRun: nothing is
\* written) and appends to the file otherwise.
HandleFunc(W, h, m) ==
  LET W1 == [ W EXCEPT !.obs[h].delivered = Append(@, m.id) ]
  IN IF Kind(h) = "file" /\ ~W.h[h].filePtr
       THEN W1
       ELSE [ W1 EXCEPT !.sinks[SinkOf(W, h)] = Append(@, m.id) ]

\* StartFunc of the file handler: a location without a file name is refused;
\* ensureLogFile fails when the location is a directory; otherwise the log file
\* is opened (f.filePtr = logfile).
StartFunc(W, h) ==
  IF Kind(h) = "file"
    THEN IF W.h[h].logFilename = << "." >> THEN [ w |-> W, err |-> ErrMissingLogFilename ]
         ELSE IF W.h[h].isDir
           THEN [ w |-> W, err |-> FailedToOpen(ErrFoundDirWhenExpectingFile) ]
         ELSE [ w |-> [ W EXCEPT !.h[h].filePtr = TRUE ], err |-> Nil ]
    ELSE [ w |-> W, err |-> Nil ]

\* rh.handler.release: one owner less; TRUE when it was the last one.
release(W, h) ==
  LET n == W.h[h].count - 1
  IN [ w |-> [ W EXCEPT !.h[h].count = n,
                        !.h[h].running = IF n = 0 THEN FALSE ELSE @ ],
       last |-> (n = 0) ]

\* CancelPreFunc of the file handler.
CancelPreFunc(W, h) ==
  IF Kind(h) = "file" /\ W.h[h].release
    THEN LET r == release(W, h)
         IN IF ~r.last
              THEN [ w |-> r.w, err |-> ErrSkipClose ]
              ELSE [ w |-> [ r.w EXCEPT !.h[h].release = FALSE ], err |-> Nil ]
    ELSE [ w |-> W, err |-> Nil ]

\* CloseFunc: the file handler's onRelease, once per acquisition's closure, syncs
\* and closes the file and deletes the registry entry of its path; the writer
\* handler closes a closable writer.
CloseFunc(W, h) ==
  IF Kind(h) = "file" /\ ~W.h[h].onReleaseDone
    THEN [ W EXCEPT !.h[h].filePtr = FALSE, !.reg[W.h[h].path] = NoHandler,
                    !.h[h].onReleaseDone = TRUE ]
    ELSE W

\* ------------------------------------------------- BaseHandler, call by call
\* BaseHandler.Start while it holds b.mu: the running test, the new context and
\* queue, running = true, wg.Add, StartFunc, registerCleanup.
\* Mutant of StartLocked: HandleFunc is tested after the context and the queue
\* have been made.
StartLockedLateGuard(W, h) ==
  IF W.h[h].running THEN [ w |-> W, err |-> ErrAlreadyStarted ]
  ELSE
    LET W1 == [ W EXCEPT !.h[h].ctxDone = FALSE, !.h[h].logCh = <<>>,
                         !.h[h].chState = "open" ]
    IN IF ~W.h[h].hasHandleFunc THEN [ w |-> W1, err |-> ErrInvalidLogHandler ]
       ELSE LET W2 == [ W1 EXCEPT !.h[h].running = TRUE,
                                  !.h[h].wg = @ + NumSubprocesses(h) + 1 ]
                sf == StartFunc(W2, h)
            IN IF sf.err # Nil THEN [ w |-> sf.w, err |-> sf.err ]
               ELSE [ w |-> registerCleanup(sf.w, h), err |-> Nil ]

\* Mutant of StartLocked: the cleanup callback is registered before StartFunc.
StartLockedRegisterFirst(W, h) ==
  IF W.h[h].running THEN [ w |-> W, err |-> ErrAlreadyStarted ]
  ELSE IF ~W.h[h].hasHandleFunc THEN [ w |-> W, err |-> ErrInvalidLogHandler ]
  ELSE
    LET W1 == [ W EXCEPT !.h[h].ctxDone = FALSE, !.h[h].logCh = <<>>,
                         !.h[h].chState = "open", !.h[h].running = TRUE,
                         !.h[h].wg = @ + NumSubprocesses(h) + 1 ]
        sf == StartFunc(registerCleanup(W1, h), h)
    IN [ w |-> sf.w, err |-> sf.err ]

StartLocked(W, h) ==
  IF W.h[h].running THEN [ w |-> W, err |-> ErrAlreadyStarted ]
  ELSE IF ~W.h[h].hasHandleFunc THEN [ w |-> W, err |-> ErrInvalidLogHandler ]
  ELSE
    LET W1 == [ W EXCEPT !.h[h].ctxDone = FALSE, !.h[h].logCh = <<>>,
                         !.h[h].chState = "open", !.h[h].running = TRUE,
                         !.h[h].wg = @ + NumSubprocesses(h) + 1 ]
        sf == StartFunc(W1, h)
    IN IF sf.err # Nil THEN [ w |-> sf.w, err |-> sf.err ]
       ELSE [ w |-> registerCleanup(sf.w, h), err |-> Nil ]

\* The goroutines of a handler: the delivery worker and its subprocesses.
Goroutines(h) == IF NumSubprocesses(h) = 1 THEN {"worker", "sub"} ELSE {"worker"}

\* BaseHandler.Start after it has released b.mu: the goroutines are launched.
Spawn(W, h) == [ W EXCEPT !.h[h].live = Goroutines(h) ]

\* BaseHandler.Start.
HStart(W, h) ==
  LET s == StartLocked(W, h)
  IN IF s.err # Nil THEN s ELSE [ w |-> Spawn(s.w, h), err |-> Nil ]

\* The delivery worker's drain loop: every queued message goes to HandleFunc.
RECURSIVE Drain(_, _)
Drain(W, h) ==
  IF W.h[h].logCh = <<>> THEN W
  ELSE Drain([ HandleFunc(W, h, Head(W.h[h].logCh)) EXCEPT !.h[h].logCh = Tail(@) ], h)

\* BaseHandler.close from b.running = false to b.cancel(): mark, deregister, cancel.
TeardownBegin(W, h) ==
  LET W1 == [ W EXCEPT !.h[h].running = FALSE ]
      W2 == IF W1.h[h].cleanupId # 0
              THEN [ unregisterCleanup(W1, W1.h[h].cleanupId) EXCEPT !.h[h].cleanupId = 0 ]
              ELSE W1
  IN [ W2 EXCEPT !.h[h].ctxDone = TRUE ]

\* BaseHandler.close after b.wg.Wait(): CloseFunc, close(b.logCh).
TeardownEnd(W, h) == [ CloseFunc(W, h) EXCEPT !.h[h].chState = "closed" ]

\* b.wg.Wait() with no other call on the handler under way: the worker drains the
\* queue and the goroutines exit.
Drained(W, h) == [ Drain(W, h) EXCEPT !.h[h].live = {}, !.h[h].wg = 0 ]

\* BaseHandler.close up to b.wg.Wait(): the running test, CancelPreFunc and, unless
\* it says ErrSkipClose, the first part of the teardown. done: close has returned.
\* Mutant of closeBegin: ErrSkipClose is swallowed but the teardown goes on.
closeBeginIgnoresSkip(W, h) ==
  IF ~W.h[h].running THEN [ w |-> W, err |-> ErrNotStarted, done |-> TRUE ]
  ELSE LET pre == CancelPreFunc(W, h)
       IN [ w |-> TeardownBegin(pre.w, h),
            err |-> IF pre.err = ErrSkipClose THEN Nil ELSE pre.err, done |-> FALSE ]

closeBegin(W, h) ==
  IF ~W.h[h].running THEN [ w |-> W, err |-> ErrNotStarted, done |-> TRUE ]
  ELSE LET pre == CancelPreFunc(W, h)
       IN IF pre.err = ErrSkipClose
            THEN [ w |-> pre.w, err |-> Nil, done |-> TRUE ]
            ELSE [ w |-> TeardownBegin(pre.w, h), err |-> pre.err, done |-> FALSE ]

\* BaseHandler.close (the caller holds b.mu).
close(W, h) ==
  LET c == closeBegin(W, h)
  IN IF c.done THEN [ w |-> c.w, err |-> c.err ]
     ELSE [ w |-> TeardownEnd(Drained(c.w, h), h), err |-> c.err ]

\* BaseHandler.Close.
HClose(W, h) ==
  close([ W EXCEPT !.obs[h].closeCalls = @ + 1 ], h)

\* acquireLogMessage: the copy of the message that is queued.
acquireLogMessage(name, m) == [ id |-> m.id, level |-> m.level, loggerName |-> name ]

\* Mutant of HasRoom: a full buffer still takes one message.
HasRoomWhenFull(q) == Len(q) <= LogChCap

\* The send case of Handle's select is ready when the buffer has room.
HasRoom(q) == Len(q) < LogChCap

\* BaseHandler.Handle, called while no Start or Close of the handler is under
\* way: the context of a running handler is then live, and the select sends if
\* the buffer has room and falls to its default case (drop) if not.
HHandle(W, h, name, m) ==
  LET W0 == [ W EXCEPT !.obs[h].handleCalls = @ + 1 ]
  IN IF ~W.h[h].running THEN W0
     ELSE IF W.h[h].ctxDone THEN W0
     ELSE IF HasRoom(W.h[h].logCh)
       THEN [ W0 EXCEPT !.h[h].logCh = Append(@, acquireLogMessage(name, m)),
                        !.obs[h].accepted = Append(@, m.id) ]
       ELSE W0

\* Mutant of WorkerStep: the worker takes the newest message of the queue.
WorkerStepNewest(W, h) ==
  LET q == W.h[h].logCh
  IN [ HandleFunc(W, h, q[Len(q)]) EXCEPT !.h[h].logCh = SubSeq(q, 1, Len(q) - 1) ]

\* One iteration of the delivery worker: receive from the queue and HandleFunc.
WorkerStep(W, h) ==
  [ HandleFunc(W, h, Head(W.h[h].logCh)) EXCEPT !.h[h].logCh = Tail(@) ]

\* ------------------------------------------------------------ file paths
\* A path is the sequence of its pieces: a name, "/", "." or the suffix ".log".
PathText(p) ==
  IF p = "a.log" THEN << "a", ".log" >> ELSE IF p = "." THEN << "." >> ELSE << >>

\* The components of a path: what stands between its separators.
RECURSIVE Components(_)
Components(s) ==
  IF s = << >> THEN << << >> >>
  ELSE LET r == Components(Tail(s))
       IN IF Head(s) = "/" THEN << << >> >> \o r
          ELSE << << Head(s) >> \o Head(r) >> \o Tail(r)

\* The components joined by separators.
RECURSIVE JoinSlash(_)
JoinSlash(cs) ==
  IF cs = << >> THEN << >>
  ELSE IF Len(cs) = 1 THEN cs[1]
  ELSE cs[1] \o << "/" >> \o JoinSlash(Tail(cs))

\* filepath.Clean on paths without "..": empty and "." components go, an empty
\* result is ".".
filepathClean(s) ==
  LET Keep(c) == c # << >> /\ c # << "." >>
      out == JoinSlash(SelectSeq(Components(s), Keep))
      rooted == s # << >> /\ Head(s) = "/"
  IN IF rooted THEN << "/" >> \o out
     ELSE IF out = << >> THEN << "." >>
     ELSE out

\* filepath.Join: the non-empty elements, joined and cleaned; "" if there is none.
filepathJoin(dir, base) ==
  LET NonEmpty(c) == c # << >>
      elems == SelectSeq(<< dir, base >>, NonEmpty)
  IN IF elems = << >> THEN << >> ELSE filepathClean(JoinSlash(elems))

\* filepath.Split: the path up to and with its last separator, and the rest.
filepathSplit(path) ==
  LET seps == { i \in DOMAIN path : path[i] = "/" }
      i == IF seps = {} THEN 0 ELSE CHOOSE k \in seps : \A j \in seps : j <= k
  IN [ dir |-> SubSeq(path, 1, i), file |-> SubSeq(path, i + 1, Len(path)) ]

\* filepath.Dir and filepath.Base.
filepathDir(path) == filepathClean(filepathSplit(path).dir)
filepathBase(path) ==
  IF path = << >> THEN << "." >>
  ELSE LET Keep(c) == c # << >>
           cs == SelectSeq(Components(path), Keep)
       IN IF cs = << >> THEN << "/" >> ELSE cs[Len(cs)]

\* strings.TrimSuffix(path, ".log").
TrimSuffix(path) ==
  IF path # << >> /\ path[Len(path)] = ".log" THEN SubSeq(path, 1, Len(path) - 1) ELSE path

\* FileHandler.SetLogfileLocation.
SetLogfileLocation(W, f, dir, base) ==
  LET path == filepathJoin(dir, base)
  IN IF path = << "." >> THEN [ w |-> W, err |-> ErrMissingLogFilename ]
     ELSE LET sp == filepathSplit(TrimSuffix(path) \o << ".log" >>)
          IN [ w |-> [ W EXCEPT !.h[f].logDir = sp.dir, !.h[f].logFilename = sp.file ],
               err |-> Nil ]

\* ------------------------------------------------ the shared file handlers
\* newFileHandler allocates a FileHandler; the model takes the next free instance.
FreeInsts(W) == { f \in FileInsts : ~W.h[f].alloc }
FreshInst(W) == IF "f1" \in FreeInsts(W) THEN "f1" ELSE "f2"

SetMaxFileSize(W, f, size) == [ W EXCEPT !.h[f].maxFileSize = size ]

\* NewFileHandler = newRefCounted(newFileHandler(path)): LoadOrStore the entry of
\* the path, set release and onRelease, count the owner, and start the handler
\* when the owner is the first.
NewFileHandler(W, p) ==
  LET stored == W.reg[p] = NoHandler
      f == IF stored THEN FreshInst(W) ELSE W.reg[p]
      W1 == IF stored
              THEN [ W EXCEPT !.h[f] = [ NewHandler EXCEPT
                                          !.alloc = TRUE, !.path = p,
                                          !.logDir = filepathDir(PathText(p)),
                                          !.logFilename = filepathBase(PathText(p)) ],
                              !.reg[p] = f ]
              ELSE W
      W2 == [ W1 EXCEPT !.h[f].release = TRUE, !.h[f].onReleaseDone = FALSE,
                        !.h[f].count = @ + 1 ]
  IN IF W2.h[f].count = 1
       THEN LET s == HStart(W2, f)
            IN IF s.err # Nil /\ s.err # ErrAlreadyStarted
                 THEN [ w |-> [ s.w EXCEPT !.reg[p] = NoHandler ], fh |-> NoHandler,
                        err |-> s.err, inst |-> f ]
                 ELSE [ w |-> s.w, fh |-> f, err |-> Nil, inst |-> f ]
       ELSE [ w |-> W2, fh |-> f, err |-> Nil, inst |-> f ]

\* ---------------------------------------------------------- cleanup, run
\* The callback BaseHandler.Start registers: CancelPreFunc, then close.
CleanupCallback(W, h) ==
  LET pre == CancelPreFunc(W, h)
      c == close(pre.w, h)
  IN [ w |-> c.w, err |-> Join(pre.err, c.err) ]

\* noPanicRun(name, fn) on a registered callback: a callback whose hook panics
\* is recovered (its deferred unlock runs, nothing else has happened).
noPanicRun(W, h) ==
  LET W0 == [ W EXCEPT !.obs[h].cbRuns = @ + 1 ]
  IN IF W.h[h].hookPanics THEN [ w |-> W0, err |-> Nil, panic |-> TRUE ]
     ELSE LET c == CleanupCallback(W0, h) IN [ w |-> c.w, err |-> c.err, panic |-> FALSE ]

RECURSIVE RunCallbacks(_, _)
RunCallbacks(W, hs) ==
  IF hs = <<>> THEN W ELSE RunCallbacks(noPanicRun(W, Head(hs)).w, Tail(hs))

\* What the loop of runCleanup gets back from each callback, in the order run.
RECURSIVE RunOutcomes(_, _)
RunOutcomes(W, hs) ==
  IF hs = <<>> THEN <<>>
  ELSE LET r == noPanicRun(W, Head(hs))
       IN << [ h |-> Head(hs), err |-> r.err, panic |-> r.panic ] >> \o RunOutcomes(r.w, Tail(hs))

\* The orders in which a range over the map can yield the callbacks.
Orders(fns) ==
  { s \in [ 1..Cardinality(DOMAIN fns) -> DOMAIN fns ] :
      \A i, j \in DOMAIN s : i # j => s[i] # s[j] }

\* runCleanup: snapshot and clear the map, reset the id counter, run the snapshot.
runCleanup(W, order) ==
  LET hs == [ i \in DOMAIN order |-> W.fns[order[i]] ]
  IN RunCallbacks([ W EXCEPT !.fns = << >>, !.gen = 0 ], hs)

\* The failures the loop of runCleanup reports on stderr.
runCleanupOutcomes(W, order) ==
  LET hs == [ i \in DOMAIN order |-> W.fns[order[i]] ]
  IN RunOutcomes([ W EXCEPT !.fns = << >>, !.gen = 0 ], hs)

\* ------------------------------------------------------------------ Logger
NoLogger ==
  [ built |-> FALSE, running |-> FALSE, level |-> WARN, stdoutEnabled |-> TRUE,
    stderrEnabled |-> TRUE, handlers |-> <<>>, cleanup |-> <<>> ]

\* Mutant of StartAll: a handler's ErrAlreadyStarted ends the loop like any error.
RECURSIVE StartAllStrict(_, _)
StartAllStrict(W, hs) ==
  IF hs = <<>> THEN [ w |-> W, err |-> Nil ]
  ELSE LET s == HStart(W, Head(hs))
       IN IF s.err # Nil
            THEN [ w |-> s.w, err |-> s.err ]
            ELSE StartAllStrict(s.w, Tail(hs))

\* The loop of Logger.Start over l.handlers: stop at the first error other than
\* ErrAlreadyStarted.
RECURSIVE StartAll(_, _)
StartAll(W, hs) ==
  IF hs = <<>> THEN [ w |-> W, err |-> Nil ]
  ELSE LET s == HStart(W, Head(hs))
       IN IF s.err # Nil /\ s.err # ErrAlreadyStarted
            THEN [ w |-> s.w, err |-> s.err ]
            ELSE StartAll(s.w, Tail(hs))

\* Logger.Start.
LStart(W, lg) ==
  IF lg.running THEN [ w |-> W, lg |-> lg, err |-> ErrAlreadyStarted ]
  ELSE LET s == StartAll(W, lg.handlers)
       IN [ w |-> s.w, lg |-> [ lg EXCEPT !.running = TRUE ], err |-> s.err ]

\* The loop of Logger.Close over l.handlers: every handler is closed, the errors joined.
RECURSIVE CloseAll(_, _)
CloseAll(W, hs) ==
  IF hs = <<>> THEN [ w |-> W, err |-> Nil ]
  ELSE LET c == HClose(W, Head(hs))
           rest == CloseAll(c.w, Tail(hs))
       IN [ w |-> rest.w, err |-> Join(c.err, rest.err) ]

\* Mutant of LClose: the running test is gone.
LCloseUnguarded(W, lg) ==
  LET c == CloseAll(W, lg.handlers)
  IN [ w |-> c.w, lg |-> [ lg EXCEPT !.running = FALSE ], err |-> c.err ]

\* Logger.Close.
LClose(W, lg) ==
  IF ~lg.running THEN [ w |-> W, lg |-> lg, err |-> Nil ]
  ELSE LET c == CloseAll(W, lg.handlers)
       IN [ w |-> c.w, lg |-> [ lg EXCEPT !.running = FALSE ], err |-> c.err ]

\* Mutant of SetLevel: TRACE is refused, as by Build.
SetLevelAboveTrace(lg, level) ==
  IF level <= TRACE \/ level > QUIET
    THEN [ lg |-> lg, err |-> ErrInvalidLogLevel ]
    ELSE [ lg |-> [ lg EXCEPT !.level = level ], err |-> Nil ]

\* Logger.SetLevel.
SetLevel(lg, level) ==
  IF level < TRACE \/ level > QUIET
    THEN [ lg |-> lg, err |-> ErrInvalidLogLevel ]
    ELSE [ lg |-> [ lg EXCEPT !.level = level ], err |-> Nil ]

\* Mutant of BelowThreshold: a message at the threshold is dropped too.
BelowOrAtThreshold(msgLevel, threshold) == msgLevel <= threshold

\* The level test of SendLog: a message below the threshold is dropped.
BelowThreshold(msgLevel, threshold) == msgLevel < threshold

\* Mutant of HandleAll: the loop stops after the first handler.
HandleFirst(W, hs, name, m) ==
  IF hs = <<>> THEN W ELSE HHandle(W, Head(hs), name, m)

\* The loop of SendLog over l.handlers.
RECURSIVE HandleAll(_, _, _, _)
HandleAll(W, hs, name, m) ==
  IF hs = <<>> THEN W
  ELSE HandleAll(HHandle(W, Head(hs), name, m), Tail(hs), name, m)

\* The mirroring of SendLog to the default stream handlers.
Mirror(W, lg, name, m) ==
  IF lg.level # QUIET
    THEN IF m.level >= WARN /\ lg.stderrEnabled THEN HHandle(W, StderrH, name, m)
         ELSE IF lg.stdoutEnabled THEN HHandle(W, StdoutH, name, m)
         ELSE W
    ELSE W

\* Logger.SendLog.
SendLog(W, l, m) ==
  LET lg == logger[l]
  IN IF BelowThreshold(m.level, lg.level) THEN W
     ELSE HandleAll(Mirror(W, lg, l, m), lg.handlers, l, m)

\* LogMessage.Fatal(): the level of a fatal message.
FatalLevel == ERROR

\* What a per-logger cleanup callback finds when it runs: the calls made to
\* each handler so far, the process-wide registry and the handlers running.
Seen(W, fn) ==
  [ fn |-> fn, fns |-> W.fns,
    handleCalls |-> [ h \in HandlerIds |-> W.obs[h].handleCalls ],
    running |-> { h \in HandlerIds : W.h[h].running } ]

\* Mutant of Fatal: the process-wide registry runs before the per-logger
\* callbacks.
FatalRegistryFirst(W, l, m, order) ==
  LET W1 == SendLog(W, l, m)
      W2 == runCleanup(W1, order)
      cs == logger[l].cleanup
  IN [ w |-> W2, seen |-> [ i \in DOMAIN cs |-> Seen(W2, cs[i]) ], exit |-> 1 ]

\* Logger.Fatal's send function: SendLog, the logger's cleanup callbacks in
\* the order of l.cleanup, runCleanup, os.Exit(1).
Fatal(W, l, m, order) ==
  LET W1 == SendLog(W, l, m)
      cs == logger[l].cleanup
      seen == [ i \in DOMAIN cs |-> Seen(W1, cs[i]) ]
      W2 == runCleanup(W1, order)
  IN [ w |-> W2, seen |-> seen, exit |-> 1 ]

\* ----------------------------------------------------------- LoggerBuilder
\* NewLogger(): the builder's defaults.
NewBuilder ==
  [ level |-> WARN, stdoutEnabled |-> TRUE, stderrEnabled |-> TRUE, handlers |-> <<>>,
    path |-> NoPath, maxLogFileSize |-> 0, cleanup |-> <<>> ]

\* Mutant of ApplyMaxFileSize: the default case of the switch lets a negative
\* size through.
ApplyMaxFileSizeUnchecked(W, f, size) ==
  [ w |-> SetMaxFileSize(W, f, size), err |-> Nil ]

\* The switch of Build on lb.maxLogFileSize and the statement that follows it.
ApplyMaxFileSize(W, f, size) ==
  LET W1 == IF size = 0 THEN SetMaxFileSize(W, f, DefaultMaxFileSize)
            ELSE IF size = -1 THEN SetMaxFileSize(W, f, 0)
            ELSE W
  IN IF size # 0 /\ size # -1 /\ size < 0
       THEN [ w |-> W1, err |-> ErrInvalidMaxFileSize ]
       ELSE [ w |-> SetMaxFileSize(W1, f, size), err |-> Nil ]

\* LoggerBuilder.Build.
Build(W, b) ==
  IF b.level <= TRACE \/ b.level > QUIET
    THEN [ w |-> W, lg |-> NoLogger, err |-> ErrInvalidLogLevel ]
  ELSE LET mk(hs) == [ built |-> TRUE, running |-> FALSE, level |-> b.level,
                       stdoutEnabled |-> b.stdoutEnabled, stderrEnabled |-> b.stderrEnabled,
                       handlers |-> hs, cleanup |-> b.cleanup ]
       IN IF b.path # NoPath
            THEN LET n == NewFileHandler(W, b.path)
                 IN IF n.err # Nil THEN [ w |-> n.w, lg |-> NoLogger, err |-> n.err ]
                    ELSE LET a == ApplyMaxFileSize(n.w, n.fh, b.maxLogFileSize)
                         IN IF a.err # Nil THEN [ w |-> a.w, lg |-> NoLogger, err |-> a.err ]
                            ELSE [ w |-> a.w, lg |-> mk(Append(b.handlers, n.fh)), err |-> Nil ]
            ELSE [ w |-> W, lg |-> mk(b.handlers), err |-> Nil ]

\* ------------------------------------------------------------ initial state
BlankWorld ==
  [ h |-> [ x \in HandlerIds |-> NewHandler ], gen |-> 0, fns |-> << >>,
    reg |-> [ p \in Paths |-> NoHandler ],
    sinks |-> [ x \in Writers \cup Paths \cup { ArchivesOf(q) : q \in Paths } |-> <<>> ],
    obs |-> [ x \in HandlerIds |-> NewObs ] ]

\* init(): the default stdout and stderr handlers are started and registered.
PkgInit == HStart(HStart(BlankWorld, StdoutH).w, StderrH).w

InitWorld(W) ==
  /\ hnd = W.h
  /\ cleanupIdGen = W.gen
  /\ cleanupFns = W.fns
  /\ fileHandlers = W.reg
  /\ sinks = W.sinks
  /\ obs = W.obs
  /\ nextMsg = 0
  /\ mu = [ x \in HandlerIds |-> Free ]
  /\ logMsgPool = {}
  /\ defaultLogger = NoDefault
  /\ ret = [ op |-> "init" ]

\* The goroutines of the model: two callers, and the delivery worker and the
\* subprocess of the handler whose calls are followed statement by statement.
Clients == { "t1", "t2" }
Threads == Clients \cup { "worker", "sub" }
Idle == [ op |-> "none", pc |-> "idle", m |-> 0, stale |-> FALSE ]
NoThreads == [ t \in Threads |-> Idle ]

Range(s) == { s[i] : i \in DOMAIN s }
Count(x, s) == Cardinality({ i \in DOMAIN s : s[i] = x })

\* ----------------------------------------------------------------- actions
\* logger.Start()
LoggerStart(l) ==
  /\ logger[l].built
  /\ LET r == LStart(World, logger[l])
     IN /\ Apply(r.w)
        /\ logger' = [ logger EXCEPT ![l] = r.lg ]
        /\ ret' = [ op |-> "Logger.Start", l |-> l, err |-> r.err ]
  /\ UNCHANGED <<defaultLogger, logMsgPool, nextMsg, mu, thr>>

\* logger.Close()
LoggerClose(l) ==
  /\ logger[l].built
  /\ LET r == LClose(World, logger[l])
     IN /\ Apply(r.w)
        /\ logger' = [ logger EXCEPT ![l] = r.lg ]
        /\ ret' = [ op |-> "Logger.Close", l |-> l, err |-> r.err,
                    was |-> logger[l].running ]
  /\ UNCHANGED <<defaultLogger, logMsgPool, nextMsg, mu, thr>>

\* logger.SetLevel(level)
LoggerSetLevel(l, level) ==
  /\ logger[l].built
  /\ LET r == SetLevel(logger[l], level)
     IN /\ logger' = [ logger EXCEPT ![l] = r.lg ]
        /\ ret' = [ op |-> "Logger.SetLevel", l |-> l, level |-> level, err |-> r.err ]
  /\ UNCHANGED <<defaultLogger, logMsgPool, hnd, cleanupIdGen, cleanupFns, fileHandlers, sinks, obs, nextMsg, mu, thr>>

\* logger.Log(level).Msg(..).Send(): a new message through SendLog
LoggerSendLog(l, level) ==
  /\ logger[l].built
  /\ LET m == [ id |-> nextMsg + 1, level |-> level ]
     IN /\ Apply(SendLog(World, l, m))
        /\ ret' = [ op |-> "SendLog", l |-> l, level |-> level, id |-> m.id ]
  /\ nextMsg' = nextMsg + 1
  /\ UNCHANGED <<defaultLogger, logMsgPool, logger, mu, thr>>

\* logger.Fatal().Msg(..).Send(): the process ends with the step
LoggerFatal(l, order) ==
  /\ logger[l].built
  /\ LET m == [ id |-> nextMsg + 1, level |-> FatalLevel ]
         r == Fatal(World, l, m, order)
     IN /\ Apply(r.w)
        /\ ret' = [ op |-> "Fatal", l |-> l, id |-> m.id, seen |-> r.seen, exit |-> r.exit ]
  /\ nextMsg' = nextMsg + 1
  /\ UNCHANGED <<defaultLogger, logMsgPool, logger, mu, thr>>

\* The process is alive until a step has called os.Exit.
Alive == ret.op # "Fatal"

\* the delivery worker of a handler takes the next message of the queue
WorkerDeliver(h) ==
  /\ "worker" \in hnd[h].live
  /\ ~hnd[h].ctxDone
  /\ hnd[h].logCh # <<>>
  /\ Apply(WorkerStep(World, h))
  /\ ret' = [ op |-> "deliver", h |-> h ]
  /\ UNCHANGED <<defaultLogger, logMsgPool, logger, nextMsg, mu, thr>>

\* ------------------------------------------------- specification: a logger
\* The loggers of SpecLogger: NewLogger().WithLevel(..).WithStdout(..).
\* WithStderr(..).WithHandlers(..).Build() on a process that has just started.
HandlerLists == { <<>>, <<"w1">>, <<"w1", "w2">>, <<"w1", "w1">> }

LoggerConfigs ==
  { [ NewBuilder EXCEPT !.level = lv, !.stdoutEnabled = so, !.stderrEnabled = se,
                        !.handlers = hs ] :
      lv \in {INFO}, so \in BOOLEAN, se \in BOOLEAN, hs \in HandlerLists }

InitLogger ==
  /\ InitWorld(PkgInit)
  /\ thr = NoThreads
  /\ \E b \in LoggerConfigs :
       logger = [ l \in LoggerIds |-> IF l = "L1" THEN Build(PkgInit, b).lg ELSE NoLogger ]

NextLogger ==
  \/ cleanupIdGen < MaxIds /\ LoggerStart("L1")
  \/ LoggerClose("L1")
  \/ \E level \in { TRACE - 1, TRACE, ERROR, QUIET, QUIET + 1 } : LoggerSetLevel("L1", level)
  \/ \E level \in Levels : nextMsg < MaxMsgs /\ LoggerSendLog("L1", level)
  \/ \E h \in {"w1", "w2"} : WorkerDeliver(h)

SpecLogger == InitLogger /\ [][NextLogger]_vars

\* NewFileHandler(path), by a component that then owns the handler it returns
AcquireFile(p) ==
  /\ LET r == NewFileHandler(World, p)
     IN /\ Apply(IF r.err = Nil
                   THEN [ r.w EXCEPT !.obs[r.fh].owners = @ + 1 ]
                   ELSE r.w)
        /\ ret' = [ op |-> "NewFileHandler", h |-> r.fh, err |-> r.err, inst |-> r.inst ]
  /\ UNCHANGED <<defaultLogger, logMsgPool, logger, nextMsg, mu, thr>>

\* h.Close(), by one of the owners of a file handler
OwnerClose(h) ==
  /\ obs[h].owners > 0
  /\ LET r == HClose(World, h)
     IN /\ Apply([ r.w EXCEPT !.obs[h].owners = @ - 1 ])
        /\ ret' = [ op |-> "Handler.Close", h |-> h, err |-> r.err ]
  /\ UNCHANGED <<defaultLogger, logMsgPool, logger, nextMsg, mu, thr>>

\* h.Start()
HandlerStart(h) ==
  /\ LET r == HStart(World, h)
     IN /\ Apply(r.w)
        /\ ret' = [ op |-> "Handler.Start", h |-> h, err |-> r.err ]
  /\ UNCHANGED <<defaultLogger, logMsgPool, logger, nextMsg, mu, thr>>

\* h.Handle(name, msg)
HandlerHandle(h) ==
  /\ LET m == [ id |-> nextMsg + 1, level |-> INFO ]
     IN /\ Apply(HHandle(World, h, "owner", m))
        /\ ret' = [ op |-> "Handle", h |-> h, id |-> m.id ]
  /\ nextMsg' = nextMsg + 1
  /\ UNCHANGED <<defaultLogger, logMsgPool, logger, mu, thr>>

\* Sync(): a run of the cleanup registry
Sync(order) ==
  /\ Apply(runCleanup(World, order))
  /\ ret' = [ op |-> "Sync", outcomes |-> runCleanupOutcomes(World, order) ]
  /\ UNCHANGED <<defaultLogger, logMsgPool, logger, nextMsg, mu, thr>>

\* fh.SetLogfileLocation(dir, base)
FileSetLogfileLocation(h, dir, base) ==
  /\ hnd[h].alloc
  /\ LET r == SetLogfileLocation(World, h, dir, base)
     IN /\ Apply(r.w)
        /\ ret' = [ op |-> "SetLogfileLocation", h |-> h, dir |-> dir, base |-> base,
                    err |-> r.err ]
  /\ UNCHANGED <<defaultLogger, logMsgPool, logger, nextMsg, mu, thr>>

\* lb.Build(), the logger stored as l
BuildLogger(l, b) ==
  /\ ~logger[l].built
  /\ LET r == Build(World, b)
     IN /\ Apply(r.w)
        /\ logger' = [ logger EXCEPT ![l] = r.lg ]
        /\ ret' = [ op |-> "Build", l |-> l, err |-> r.err, level |-> b.level,
                    path |-> b.path, size |-> b.maxLogFileSize,
                    fh |-> IF r.err = Nil /\ b.path # NoPath
                             THEN r.lg.handlers[Len(r.lg.handlers)] ELSE NoHandler ]
  /\ UNCHANGED <<defaultLogger, logMsgPool, nextMsg, mu, thr>>

\* ------------------------------- specification: owners of one shared file
Acquisitions == obs["f1"].owners + obs["f1"].closeCalls + obs["f2"].owners + obs["f2"].closeCalls

InitFile ==
  /\ InitWorld(PkgInit)
  /\ thr = NoThreads
  /\ logger = [ l \in LoggerIds |-> NoLogger ]

NextFile ==
  \/ \E p \in Paths :
       Acquisitions < MaxOwners /\ FreeInsts(World) # {} /\ AcquireFile(p)
  \/ \E h \in FileInsts : OwnerClose(h)
  \/ \E h \in FileInsts : nextMsg < MaxMsgs /\ obs[h].owners > 0 /\ HandlerHandle(h)
  \/ \E h \in FileInsts : WorkerDeliver(h)
  \/ \E order \in Orders(cleanupFns) : Sync(order)

SpecFile == InitFile /\ [][NextFile]_vars

\* ------------------------------------------ specification: the builder
\* NewLogger().WithLevel(level).WithFile(path, size)
BuildSizes == { -2, -1, 0, 7 }

BuildConfigs ==
  { [ NewBuilder EXCEPT !.level = lv, !.path = p, !.maxLogFileSize = sz ] :
      lv \in { INFO, QUIET + 1 }, p \in Paths \cup {NoPath}, sz \in BuildSizes }

Builds == Cardinality({ l \in LoggerIds : logger[l].built }) + hnd["f1"].count + hnd["f2"].count

NextBuild ==
  \/ \E l \in { "L1", "L2" }, b \in BuildConfigs :
       Builds < MaxBuilds /\ (b.path # NoPath => FreeInsts(World) # {}) /\ BuildLogger(l, b)
  \/ \E l \in { "L1", "L2" } : cleanupIdGen < MaxIds /\ LoggerStart(l)
  \/ \E l \in { "L1", "L2" } :
       (\A h \in Range(logger[l].handlers) : obs[h].closeCalls < MaxIds) /\ LoggerClose(l)

SpecBuild == InitFile /\ [][NextBuild]_vars

\* --------------------------- specification: one handler and a fast producer
\* A writer handler is started and then handed more messages than its queue holds
\* while its worker delivers only a few.
NextQueue ==
  \/ HandlerStart("w1")
  \/ nextMsg < MaxSends /\ hnd["w1"].running /\ HandlerHandle("w1")
  \/ Len(obs["w1"].delivered) < MaxDeliveries /\ WorkerDeliver("w1")

SpecQueue == InitFile /\ [][NextQueue]_vars

\* ------------------------ BaseHandler, statement by statement, concurrently
\* The handler whose calls are followed: the shared file handler when one has been
\* acquired, the writer handler otherwise.
Target == IF hnd["f1"].alloc THEN "f1" ELSE "w1"

\* Start, lines 53-86: b.mu.Lock() to b.mu.Unlock(). A Handle call that stands
\* before its select reads b.ctx and b.logCh without the lock: from here on it may
\* see the old ones (stale).
StartLock(t, h) ==
  /\ thr[t].pc = "idle"
  /\ mu[h] = Free
  /\ LET r == StartLocked(World, h)
     IN /\ Apply(r.w)
        /\ thr' = [ x \in Threads |->
                     IF x = t
                       THEN IF r.err = Nil THEN [ Idle EXCEPT !.op = "Start", !.pc = "spawn" ]
                            ELSE Idle
                     ELSE IF r.err = Nil /\ thr[x].op = "Handle" /\ thr[x].pc = "select"
                       THEN [ thr[x] EXCEPT !.stale = TRUE ]
                     ELSE thr[x] ]
        /\ ret' = IF r.err = Nil THEN [ op |-> "Start.locked", h |-> h ]
                  ELSE [ op |-> "Handler.Start", h |-> h, err |-> r.err ]
  /\ UNCHANGED <<defaultLogger, logMsgPool, logger, nextMsg, mu>>

\* Start, lines 88-111: the goroutines are launched and Start returns.
StartSpawn(t, h) ==
  /\ thr[t].op = "Start" /\ thr[t].pc = "spawn"
  /\ Apply(Spawn(World, h))
  /\ thr' = [ x \in Threads |->
               IF x = t THEN Idle
               ELSE IF x \in Goroutines(h) THEN [ Idle EXCEPT !.op = "run", !.pc = "select" ]
               ELSE thr[x] ]
  /\ ret' = [ op |-> "Handler.Start", h |-> h, err |-> Nil ]
  /\ UNCHANGED <<defaultLogger, logMsgPool, logger, nextMsg, mu>>

\* Close: b.mu.Lock() and close() up to b.wg.Wait(). The call returns here when the
\* handler is not running or CancelPreFunc says ErrSkipClose; otherwise it goes on
\* to wait, holding b.mu.
CloseLock(t, h) ==
  /\ thr[t].pc = "idle"
  /\ mu[h] = Free
  /\ LET c == closeBegin([ World EXCEPT !.obs[h].closeCalls = @ + 1 ], h)
     IN /\ Apply(c.w)
        /\ mu' = [ mu EXCEPT ![h] = IF c.done THEN Free ELSE t ]
        /\ thr' = [ thr EXCEPT ![t] = IF c.done THEN Idle
                                      ELSE [ Idle EXCEPT !.op = "Close", !.pc = "wait" ] ]
        /\ ret' = IF c.done THEN [ op |-> "Handler.Close", h |-> h, err |-> c.err ]
                  ELSE [ op |-> "Close.cancelled", h |-> h ]
  /\ UNCHANGED <<defaultLogger, logMsgPool, logger, nextMsg>>

\* Close: b.wg.Wait() returns, CloseFunc, close(b.logCh), b.mu.Unlock().
CloseWait(t, h) ==
  /\ thr[t].op = "Close" /\ thr[t].pc = "wait"
  /\ hnd[h].wg = 0
  /\ Apply(TeardownEnd(World, h))
  /\ mu' = [ mu EXCEPT ![h] = Free ]
  /\ thr' = [ thr EXCEPT ![t] = Idle ]
  /\ ret' = [ op |-> "Handler.Close", h |-> h, err |-> Nil ]
  /\ UNCHANGED <<defaultLogger, logMsgPool, logger, nextMsg>>

\* Handle is called with a new message.
HandleCall(t, h) ==
  /\ thr[t].pc = "idle"
  /\ Apply([ World EXCEPT !.obs[h].handleCalls = @ + 1 ])
  /\ thr' = [ thr EXCEPT ![t] = [ Idle EXCEPT !.op = "Handle", !.pc = "rlock",
                                               !.m = nextMsg + 1 ] ]
  /\ nextMsg' = nextMsg + 1
  /\ ret' = [ op |-> "Handle.called", h |-> h, id |-> nextMsg + 1 ]
  /\ UNCHANGED <<defaultLogger, logMsgPool, logger, mu>>

\* Handle, lines 165-170: b.mu.RLock(), read b.running, b.mu.RUnlock().
HandleRLock(t, h) ==
  /\ thr[t].op = "Handle" /\ thr[t].pc = "rlock"
  /\ mu[h] = Free
  /\ thr' = [ thr EXCEPT ![t] = IF hnd[h].running THEN [ @ EXCEPT !.pc = "select" ] ELSE Idle ]
  /\ ret' = IF hnd[h].running THEN [ op |-> "Handle.running", h |-> h, id |-> thr[t].m ]
            ELSE [ op |-> "Handle", h |-> h, id |-> thr[t].m, case |-> "stopped" ]
  /\ UNCHANGED <<defaultLogger, logMsgPool, hnd, cleanupIdGen, cleanupFns, fileHandlers, sinks, obs, logger, nextMsg, mu>>

\* The cases of Handle's select that are ready: the context is done; the queue is
\* open and has room; the queue is closed (the send panics); none of them (default).
ReadyCases(b, stale) ==
  LET cs == { c \in { "done", "send", "panic" } :
                \/ c = "done" /\ (b.ctxDone \/ stale)
                \/ c = "send" /\ b.chState = "open" /\ HasRoom(b.logCh)
                \/ c = "panic" /\ (b.chState = "closed" \/ stale) }
  IN IF cs = {} THEN { "default" } ELSE cs

\* Handle, lines 172-177: the select takes one of its ready cases.
HandleSelect(t, h) ==
  /\ thr[t].op = "Handle" /\ thr[t].pc = "select"
  /\ \E c \in ReadyCases(hnd[h], thr[t].stale) :
       /\ Apply(IF c = "send"
                  THEN [ World EXCEPT
                           !.h[h].logCh = Append(@, acquireLogMessage("owner",
                                                   [ id |-> thr[t].m, level |-> INFO ])),
                           !.obs[h].accepted = Append(@, thr[t].m) ]
                  ELSE World)
       /\ ret' = [ op |-> "Handle", h |-> h, id |-> thr[t].m, case |-> c ]
  /\ thr' = [ thr EXCEPT ![t] = Idle ]
  /\ UNCHANGED <<defaultLogger, logMsgPool, logger, nextMsg, mu>>

\* A goroutine of the handler returns: b.wg.Done().
Exit(W, h, g) == [ W EXCEPT !.h[h].wg = @ - 1, !.h[h].live = @ \ {g} ]

\* logHandler, lines 197-204: the select receives a message and hands it to HandleFunc.
WorkerReceive(h) ==
  /\ thr["worker"].pc = "select"
  /\ hnd[h].logCh # <<>>
  /\ Apply(WorkerStep(World, h))
  /\ ret' = [ op |-> "deliver", h |-> h, loop |-> "run" ]
  /\ UNCHANGED <<defaultLogger, logMsgPool, logger, nextMsg, mu, thr>>

\* logHandler, line 184: the select sees the context done and enters the drain loop.
WorkerCancel(h) ==
  /\ thr["worker"].pc = "select"
  /\ hnd[h].ctxDone
  /\ thr' = [ thr EXCEPT !["worker"].pc = "drain" ]
  /\ ret' = [ op |-> "worker.cancelled", h |-> h ]
  /\ UNCHANGED <<defaultLogger, logMsgPool, hnd, cleanupIdGen, cleanupFns, fileHandlers, sinks, obs, logger, nextMsg, mu>>

\* logHandler, lines 185-195: the drain loop delivers the next message, or returns
\* when the queue is empty.
WorkerDrain(h) ==
  /\ thr["worker"].pc = "drain"
  /\ IF hnd[h].logCh # <<>>
       THEN /\ Apply(WorkerStep(World, h))
            /\ ret' = [ op |-> "deliver", h |-> h, loop |-> "drain" ]
            /\ UNCHANGED thr
       ELSE /\ Apply(Exit(World, h, "worker"))
            /\ ret' = [ op |-> "worker.exit", h |-> h ]
            /\ thr' = [ thr EXCEPT !["worker"] = Idle ]
  /\ UNCHANGED <<defaultLogger, logMsgPool, logger, nextMsg, mu>>

\* logRotater: the select sees the context done and returns.
RotaterDone(h) ==
  /\ thr["sub"].pc = "select"
  /\ hnd[h].ctxDone
  /\ Apply(Exit(World, h, "sub"))
  /\ thr' = [ thr EXCEPT !["sub"] = Idle ]
  /\ ret' = [ op |-> "rotater.exit", h |-> h ]
  /\ UNCHANGED <<defaultLogger, logMsgPool, logger, nextMsg, mu>>

\* logRotater: the ticker fires.
RotaterTick(h) ==
  /\ thr["sub"].pc = "select"
  /\ thr' = [ thr EXCEPT !["sub"].pc = "rlock" ]
  /\ ret' = [ op |-> "rotater.tick", h |-> h ]
  /\ UNCHANGED <<defaultLogger, logMsgPool, hnd, cleanupIdGen, cleanupFns, fileHandlers, sinks, obs, logger, nextMsg, mu>>

\* logRotater: GetMaxFileSize() under b.mu.RLock(); a threshold of 0 ends the
\* rotater, any other leads through the size test back to the select.
RotaterRLock(h) ==
  /\ thr["sub"].pc = "rlock"
  /\ mu[h] = Free
  /\ IF hnd[h].maxFileSize = 0
       THEN /\ Apply(Exit(World, h, "sub"))
            /\ thr' = [ thr EXCEPT !["sub"] = Idle ]
       ELSE /\ Apply(World)
            /\ thr' = [ thr EXCEPT !["sub"].pc = "select" ]
  /\ ret' = [ op |-> "rotater.size", h |-> h ]
  /\ UNCHANGED <<defaultLogger, logMsgPool, logger, nextMsg, mu>>

\* ------------------- specification: one handler under concurrent callers
\* Either a writer handler as constructed, or a file handler that two owners have
\* acquired: it is running, with its worker and its rotater at their selects.
TwoOwners ==
  LET W1 == NewFileHandler(PkgInit, "a.log").w
      W2 == NewFileHandler(W1, "a.log").w
  IN [ W2 EXCEPT !.obs["f1"].owners = 2 ]

InitEngine ==
  /\ logger = [ l \in LoggerIds |-> NoLogger ]
  /\ \/ /\ InitWorld(PkgInit)
        /\ thr = NoThreads
     \/ /\ InitWorld(TwoOwners)
        /\ thr = [ x \in Threads |->
                    IF x \in Clients THEN Idle ELSE [ Idle EXCEPT !.op = "run", !.pc = "select" ] ]

NextEngine ==
  \/ \E t \in Clients : cleanupIdGen < MaxIds /\ StartLock(t, Target)
  \/ \E t \in Clients : StartSpawn(t, Target)
  \/ \E t \in Clients : obs[Target].closeCalls < MaxCloses /\ CloseLock(t, Target)
  \/ \E t \in Clients : CloseWait(t, Target)
  \/ \E t \in Clients : nextMsg < MaxHandles /\ HandleCall(t, Target)
  \/ \E t \in Clients : HandleRLock(t, Target)
  \/ \E t \in Clients : HandleSelect(t, Target)
  \/ WorkerReceive(Target)
  \/ WorkerCancel(Target)
  \/ WorkerDrain(Target)
  \/ RotaterDone(Target)
  \/ RotaterTick(Target)
  \/ RotaterRLock(Target)

SpecEngine == InitEngine /\ [][NextEngine]_vars

\* ----------------------------------- specification: levels of loggers
\* NewLogger().WithLevel(level).Build() and logger.SetLevel(level), for every
\* level from one below TRACE to one above QUIET.
LevelConfigs ==
  { [ NewBuilder EXCEPT !.level = lv ] : lv \in (TRACE - 1)..(QUIET + 1) }

NextLevel ==
  \/ \E l \in { "L1", "L2" }, b \in LevelConfigs : BuildLogger(l, b)
  \/ \E l \in { "L1", "L2" }, level \in (TRACE - 1)..(QUIET + 1) : LoggerSetLevel(l, level)

SpecLevel == InitFile /\ [][NextLevel]_vars

\* ------------------------- specification: the location of a file handler
\* A file handler is acquired and its location set, to the directories "", ".",
\* "./", "d", "d/", "/d" and "d/e" and the bases "", ".", "a", "a.log", "b" and
\* "b.log".
Dirs ==
  { << >>, << "." >>, << ".", "/" >>, << "d" >>, << "d", "/" >>, << "/", "d" >>,
    << "d", "/", "e" >>, << "e" >> }
Bases == { << >>, << "." >>, << "a" >>, << "a", ".log" >>, << "b" >>, << "b", ".log" >> }

NextLocation ==
  \/ \E p \in Paths : hnd["f1"].count = 0 /\ ~hnd["f1"].alloc /\ AcquireFile(p)
  \/ \E dir \in Dirs, base \in Bases : FileSetLogfileLocation("f1", dir, base)

SpecLocation == InitFile /\ [][NextLocation]_vars

\* ------------------------------------------------ specification: Fatal
\* A logger built WithCleanup(..) over the handlers w1 and w2, used until a
\* Fatal message ends the process.
CleanupLists == { <<>>, << "c1" >>, << "c1", "c2" >>, << "c2", "c1" >> }

FatalConfigs ==
  { [ NewBuilder EXCEPT !.level = lv, !.handlers = <<"w1", "w2">>, !.cleanup = cs ] :
      lv \in { INFO, QUIET }, cs \in CleanupLists }

InitFatal ==
  /\ InitWorld(PkgInit)
  /\ thr = NoThreads
  /\ \E b \in FatalConfigs :
       logger = [ l \in LoggerIds |-> IF l = "L1" THEN Build(PkgInit, b).lg ELSE NoLogger ]

NextFatal ==
  /\ Alive
  /\ \/ cleanupIdGen < MaxIds /\ LoggerStart("L1")
     \/ obs["w1"].closeCalls < MaxCloses /\ LoggerClose("L1")
     \/ \E level \in { INFO, ERROR } : nextMsg < MaxMsgs /\ LoggerSendLog("L1", level)
     \/ \E h \in {"w1", "w2"} : WorkerDeliver(h)
     \/ \E order \in Orders(cleanupFns) : LoggerFatal("L1", order)

SpecFatal == InitFatal /\ [][NextFatal]_vars

\* --------------------------------------- specification: the cleanup registry
\* Handlers start and close, a file handler is shared, entries are unregistered
\* and the registry is run; the hooks of the handler w2 may panic.
Unregister(id) ==
  /\ Apply(unregisterCleanup(World, id))
  /\ ret' = [ op |-> "unregisterCleanup", id |-> id ]
  /\ UNCHANGED <<defaultLogger, logMsgPool, logger, nextMsg, mu, thr>>

InitCleanup ==
  /\ \E fault \in BOOLEAN : InitWorld([ PkgInit EXCEPT !.h["w2"].hookPanics = fault ])
  /\ thr = NoThreads
  /\ logger = [ l \in LoggerIds |-> NoLogger ]

NextCleanup ==
  \/ \E h \in { "w1", "w2" } : cleanupIdGen < MaxIds /\ HandlerStart(h)
  \/ \E p \in Paths : Acquisitions < MaxOwners /\ FreeInsts(World) # {} /\ AcquireFile(p)
  \/ \E h \in FileInsts : OwnerClose(h)
  \/ \E id \in { 1, MaxIds } : Unregister(id)
  \/ \E order \in Orders(cleanupFns) : Sync(order)

SpecCleanup == InitCleanup /\ [][NextCleanup]_vars

\* ------------------------------ FileHandler: writes and rotation, by statement
\* The greatest number of lines handed to the file handler.
MaxLines == 6

\* The size of a file: each rendered message is one line, counted as one byte.
FileSize(content) == Len(content)

\* Mutant of CanWrite: HandleFunc writes without taking f.muFile.
CanWriteAlways(b) == TRUE

\* f.muFile.Lock() in the file handler's HandleFunc.
CanWrite(b) == b.muFile = Free

\* The file the rotater looks at: filepath.Join of the handler's location.
RotaterPath(b) ==
  IF filepathJoin(b.logDir, b.logFilename) = PathText(b.path) THEN b.path ELSE NoPath

\* logHandler: the select receives a message.
WorkerTake(h) ==
  /\ thr["worker"].pc = "select"
  /\ hnd[h].logCh # <<>>
  /\ Apply([ World EXCEPT !.h[h].logCh = Tail(@) ])
  /\ thr' = [ thr EXCEPT !["worker"].pc = "write", !["worker"].m = Head(hnd[h].logCh) ]
  /\ ret' = [ op |-> "worker.receive", h |-> h ]
  /\ UNCHANGED <<defaultLogger, logMsgPool, logger, nextMsg, mu>>

\* logHandler: HandleFunc locks f.muFile, appends the line and unlocks.
WorkerWrite(h) ==
  /\ thr["worker"].pc = "write"
  /\ CanWrite(hnd[h])
  /\ Apply(HandleFunc(World, h, thr["worker"].m))
  /\ thr' = [ thr EXCEPT !["worker"].pc = "select", !["worker"].m = 0 ]
  /\ ret' = [ op |-> "deliver", h |-> h, id |-> thr["worker"].m.id ]
  /\ UNCHANGED <<defaultLogger, logMsgPool, logger, nextMsg, mu>>

\* logRotater: GetMaxFileSize() under b.mu.RLock(); 0 ends the rotater.
RotaterMax(h) ==
  /\ thr["sub"].pc = "rlock"
  /\ mu[h] = Free
  /\ IF hnd[h].maxFileSize = 0
       THEN /\ Apply(Exit(World, h, "sub"))
            /\ thr' = [ thr EXCEPT !["sub"] = Idle ]
       ELSE /\ Apply(World)
            /\ thr' = [ thr EXCEPT !["sub"].pc = "stat",
                                   !["sub"].m = [ max |-> hnd[h].maxFileSize, buf |-> << >> ] ]
  /\ ret' = [ op |-> "rotater.max", h |-> h ]
  /\ UNCHANGED <<defaultLogger, logMsgPool, logger, nextMsg, mu>>

\* logRotater: os.Stat(logPath) and the size test. A missing file is created
\* again and the tick ends; a file of at most maxFilesize ends the tick.
RotaterStat(h) ==
  /\ thr["sub"].pc = "stat"
  /\ LET p == RotaterPath(hnd[h])
         size == IF p = NoPath THEN 0 ELSE FileSize(sinks[p])
         rotate == p # NoPath /\ ~(size <= thr["sub"].m.max)
     IN /\ thr' = [ thr EXCEPT !["sub"].pc = IF rotate THEN "lock" ELSE "select" ]
        /\ ret' = [ op |-> "rotater.stat", h |-> h, size |-> size, max |-> thr["sub"].m.max,
                    rotate |-> rotate ]
  /\ Apply(World)
  /\ UNCHANGED <<defaultLogger, logMsgPool, logger, nextMsg, mu>>

\* logRotater: f.muFile.Lock().
RotaterLock(h) ==
  /\ thr["sub"].pc = "lock"
  /\ hnd[h].muFile = Free
  /\ Apply([ World EXCEPT !.h[h].muFile = "sub" ])
  /\ thr' = [ thr EXCEPT !["sub"].pc = "copy" ]
  /\ ret' = [ op |-> "rotater.lock", h |-> h ]
  /\ UNCHANGED <<defaultLogger, logMsgPool, logger, nextMsg, mu>>

\* logRotater: os.Open(logPath) and io.Copy(gz, original) into the buffer.
RotaterCopy(h) ==
  /\ thr["sub"].pc = "copy"
  /\ thr' = [ thr EXCEPT !["sub"].pc = "archive",
                         !["sub"].m.buf = sinks[RotaterPath(hnd[h])] ]
  /\ ret' = [ op |-> "rotater.copy", h |-> h ]
  /\ Apply(World)
  /\ UNCHANGED <<defaultLogger, logMsgPool, logger, nextMsg, mu>>

\* logRotater: os.WriteFile(rotatedPath, buf): one more archive beside the file
\* (the ticks of one rotater are a minute apart, its archive names differ).
RotaterArchive(h) ==
  /\ thr["sub"].pc = "archive"
  /\ Apply([ World EXCEPT !.sinks[ArchivesOf(RotaterPath(hnd[h]))] =
                             Append(@, thr["sub"].m.buf) ])
  /\ thr' = [ thr EXCEPT !["sub"].pc = "truncate" ]
  /\ ret' = [ op |-> "rotater.archive", h |-> h ]
  /\ UNCHANGED <<defaultLogger, logMsgPool, logger, nextMsg, mu>>

\* logRotater: os.Truncate(logPath, 0) and f.muFile.Unlock().
RotaterTruncate(h) ==
  /\ thr["sub"].pc = "truncate"
  /\ Apply([ World EXCEPT !.sinks[RotaterPath(hnd[h])] = << >>, !.h[h].muFile = Free ])
  /\ thr' = [ thr EXCEPT !["sub"].pc = "select", !["sub"].m = 0 ]
  /\ ret' = [ op |-> "rotater.truncate", h |-> h ]
  /\ UNCHANGED <<defaultLogger, logMsgPool, logger, nextMsg, mu>>

\* -------------------------------- specification: a file handler that rotates
\* One owner has acquired the file handler of a.log and set its threshold; lines
\* are handed to it while its worker writes and its rotater ticks.
RotateSizes == { 1, 2 }

InitRotate ==
  /\ logger = [ l \in LoggerIds |-> NoLogger ]
  /\ \E n \in RotateSizes :
       InitWorld([ SetMaxFileSize(NewFileHandler(PkgInit, "a.log").w, "f1", n)
                     EXCEPT !.obs["f1"].owners = 1 ])
  /\ thr = [ x \in Threads |->
               IF x \in Clients THEN Idle ELSE [ Idle EXCEPT !.op = "run", !.pc = "select" ] ]

NextRotate ==
  \/ nextMsg < MaxLines /\ HandlerHandle("f1")
  \/ WorkerTake("f1")
  \/ WorkerWrite("f1")
  \/ RotaterTick("f1")
  \/ RotaterMax("f1")
  \/ RotaterStat("f1")
  \/ RotaterLock("f1")
  \/ RotaterCopy("f1")
  \/ RotaterArchive("f1")
  \/ RotaterTruncate("f1")

SpecRotate == InitRotate /\ [][NextRotate]_vars

\* ------------------------------------------------------ the message pool
\* The greatest number of messages handed to the handler of the pool's
\* specification.
MaxPoolMsgs == 4

\* The metadata of the messages: none, two pairs, more pairs than the 16 of
\* releaseLogMessage's shrink test, one pair.
ManyPairs == [ i \in 1..17 |-> [ K |-> "k", V |-> "v" ] ]
SomePairs == << [ K |-> "a", V |-> "1" ], [ K |-> "b", V |-> "2" ] >>
OnePair == << [ K |-> "c", V |-> "3" ] >>

\* logMsgPool.New: a zero LogMessage whose Meta has length 0 and capacity 1.
NewLogMessage ==
  [ id |-> 0, Timestamp |-> 0, Level |-> TRACE, Message |-> "", Meta |-> << >>,
    metaCap |-> 1, trace |-> "", caller |-> "", loggerName |-> "" ]

\* The messages the callers build.
Sources ==
  { [ NewLogMessage EXCEPT !.Timestamp = 1, !.Level = INFO, !.Message = "m1" ],
    [ NewLogMessage EXCEPT !.Timestamp = 2, !.Level = ERROR, !.Message = "m2",
                           !.Meta = SomePairs, !.trace = "tr", !.caller = "ca" ],
    [ NewLogMessage EXCEPT !.Timestamp = 3, !.Level = WARN, !.Message = "m3",
                           !.Meta = ManyPairs, !.caller = "ca" ],
    [ NewLogMessage EXCEPT !.Timestamp = 4, !.Level = DEBUG, !.Meta = OnePair,
                           !.trace = "tr" ] }

\* The capacity of a slice after append: unchanged while the elements fit, and
\* otherwise grown as the runtime grows small slices (the needed length if that
\* is more than twice the capacity, twice the capacity if not).
GrowCap(cap, need) ==
  IF need <= cap THEN cap ELSE IF need > 2 * cap THEN need ELSE 2 * cap

\* logMsgPool.Get(): one of the pooled objects, or a new one.
PoolGet(pool) == pool \cup { NewLogMessage }

\* Mutant of Acquire: the text of the message is not copied.
AcquireKeepMessage(lm, loggerName, msg) ==
  [ lm EXCEPT !.id = msg.id, !.Timestamp = msg.Timestamp, !.Level = msg.Level,
              !.trace = msg.trace, !.caller = msg.caller,
              !.loggerName = loggerName, !.Meta = msg.Meta,
              !.metaCap = GrowCap(lm.metaCap, Len(msg.Meta)) ]

\* acquireLogMessage on the pooled object lm: the fields of msg are copied, the
\* name is set, the metadata is reset to length 0 and msg's pairs appended.
Acquire(lm, loggerName, msg) ==
  LET reset == [ lm EXCEPT !.Meta = << >> ]
  IN [ reset EXCEPT !.id = msg.id, !.Timestamp = msg.Timestamp, !.Level = msg.Level,
                    !.Message = msg.Message, !.trace = msg.trace, !.caller = msg.caller,
                    !.loggerName = loggerName, !.Meta = reset.Meta \o msg.Meta,
                    !.metaCap = GrowCap(lm.metaCap, Len(msg.Meta)) ]

\* releaseLogMessage: metadata, trace, caller and name are cleared, an
\* overgrown metadata slice is replaced, and the object goes back to the pool.
releaseLogMessage(pool, lm) ==
  LET cleared == [ lm EXCEPT !.Meta = << >>, !.trace = "", !.caller = "", !.loggerName = "" ]
  IN pool \cup { IF cleared.metaCap > 16 THEN [ cleared EXCEPT !.metaCap = 1 ] ELSE cleared }

\* h.Handle(name, msg) on a running handler whose queue has room: the copy made
\* by acquireLogMessage is queued.
PoolHandle(h, name, src) ==
  /\ hnd[h].running /\ ~hnd[h].ctxDone /\ HasRoom(hnd[h].logCh)
  /\ \E lm \in PoolGet(logMsgPool) :
       LET msg == [ src EXCEPT !.id = nextMsg + 1 ]
           got == Acquire(lm, name, msg)
       IN /\ logMsgPool' = logMsgPool \ { lm }
          /\ Apply([ World EXCEPT !.h[h].logCh = Append(@, got),
                                  !.obs[h].handleCalls = @ + 1,
                                  !.obs[h].accepted = Append(@, msg.id) ])
          /\ ret' = [ op |-> "acquire", h |-> h, name |-> name, src |-> msg, from |-> lm,
                      lm |-> got ]
  /\ nextMsg' = nextMsg + 1
  /\ UNCHANGED <<defaultLogger, logger, mu, thr>>

\* The delivery worker: receive, HandleFunc, releaseLogMessage.
PoolDeliver(h) ==
  /\ "worker" \in hnd[h].live
  /\ ~hnd[h].ctxDone
  /\ hnd[h].logCh # <<>>
  /\ Apply(WorkerStep(World, h))
  /\ logMsgPool' = releaseLogMessage(logMsgPool, Head(hnd[h].logCh))
  /\ ret' = [ op |-> "release", h |-> h ]
  /\ UNCHANGED <<defaultLogger, logger, nextMsg, mu, thr>>

\* ------------------------------------------ specification: the message pool
\* Messages of four shapes are handed to the running writer handler w1 under
\* two logger names while its worker delivers and releases them.
InitPool ==
  /\ InitWorld(HStart(PkgInit, "w1").w)
  /\ thr = NoThreads
  /\ logger = [ l \in LoggerIds |-> NoLogger ]

NextPool ==
  \/ \E name \in { "L1", "L2" }, src \in Sources :
       nextMsg < MaxPoolMsgs /\ PoolHandle("w1", name, src)
  \/ PoolDeliver("w1")

SpecPool == InitPool /\ [][NextPool]_vars

\* -------------------------------------------------------- LogMessage.String
\* A text is the sequence of its pieces; the newline character is the piece NL.
NL == "\n"

\* The greatest number of newlines at the end of a message text.
MaxNewlines == 3

levelNames == << "TRACE", "DEBUG", "INFO", "WARN", "ERROR", "QUIET" >>

\* lm.LevelString().
LevelString(lm) == levelNames[lm.Level + 1]

\* lm.Timestamp.Format(time.RFC3339Nano), for the timestamps of the model.
FormatTimestamp(t) ==
  CASE t = 0 -> "0001-01-01T00:00:00Z"
    [] t = 1 -> "0001-01-01T00:00:01Z"
    [] t = 2 -> "0001-01-01T00:00:02Z"
    [] OTHER -> "0001-01-01T00:00:03Z"

\* strings.TrimSuffix(s, "\n"): one newline is removed from the end, if there.
TrimNewline(s) == IF s # << >> /\ s[Len(s)] = NL THEN SubSeq(s, 1, Len(s) - 1) ELSE s

\* strings.Join(meta, ", ") of the items "K=V".
RECURSIVE JoinMeta(_)
JoinMeta(meta) ==
  IF meta = << >> THEN << >>
  ELSE << meta[1].K, "=", meta[1].V >>
         \o (IF Len(meta) > 1 THEN << ", " >> ELSE << >>) \o JoinMeta(Tail(meta))

\* LogMessage.String(loggerName); lm.Message is a text.
String(lm, loggerName) ==
  LET metaStr == IF Len(lm.Meta) > 0 THEN << " {" >> \o JoinMeta(lm.Meta) \o << "}" >>
                 ELSE << >>
      debugStr == IF lm.trace # "" \/ lm.caller # ""
                    THEN << NL, "==== DEBUG ====", NL, "Caller: ", lm.caller, NL,
                            "Trace: ", lm.trace, "===== END =====", NL, NL >>
                    ELSE << >>
      name == IF loggerName = "" THEN lm.loggerName ELSE loggerName
  IN TrimNewline(<< FormatTimestamp(lm.Timestamp), " [", LevelString(lm), "] ", name, ": " >>
                   \o TrimNewline(lm.Message) \o metaStr \o debugStr) \o << NL >>

\* ------------------------------------------ specification: rendering messages
\* Messages whose text ends in 0 to MaxNewlines newlines, with no, one or two
\* metadata pairs, with and without trace and caller, rendered under the name
\* they carry or under a given one.
Texts == { << "m" >> \o [ i \in 1..k |-> NL ] : k \in 0..MaxNewlines }

Rendered ==
  { [ NewLogMessage EXCEPT !.Timestamp = 1, !.Level = lv, !.Message = txt, !.Meta = meta,
                           !.trace = tr, !.caller = ca, !.loggerName = "L2" ] :
      lv \in { INFO, ERROR }, txt \in Texts, meta \in { << >>, OnePair, SomePairs },
      tr \in { "", "tr" }, ca \in { "", "ca" } }

\* lm.String(loggerName)
RenderString(lm, loggerName) ==
  /\ ret' = [ op |-> "String", lm |-> lm, loggerName |-> loggerName,
              out |-> String(lm, loggerName) ]
  /\ UNCHANGED <<hnd, cleanupIdGen, cleanupFns, fileHandlers, sinks, logger, obs, nextMsg,
                 mu, thr, logMsgPool, defaultLogger>>

NextString == \E lm \in Rendered, loggerName \in { "", "L1" } : RenderString(lm, loggerName)

SpecString == InitFile /\ [][NextString]_vars

\* ---------------------------------------- specification: starting loggers
\* Two loggers are built over the writer handlers, in either order, with or
\* without the file a.log, and started and closed; a writer handler may also be
\* started by its owner.
StartConfigs ==
  { [ NewBuilder EXCEPT !.level = INFO, !.handlers = hs, !.path = p ] :
      hs \in { <<"w1", "w2">>, <<"w2", "w1">> }, p \in Paths \cup {NoPath} }

NextStart ==
  \/ \E l \in { "L1", "L2" }, b \in StartConfigs :
       Builds < MaxBuilds /\ (b.path # NoPath => FreeInsts(World) # {}) /\ BuildLogger(l, b)
  \/ \E l \in { "L1", "L2" } : cleanupIdGen < MaxIds + 2 /\ LoggerStart(l)
  \/ \E l \in { "L1", "L2" } :
       (\A h \in Range(logger[l].handlers) : obs[h].closeCalls < MaxCloses) /\ LoggerClose(l)
  \/ cleanupIdGen < MaxIds + 2 /\ HandlerStart("w2")

SpecStart == InitFile /\ [][NextStart]_vars

\* --------------------------------- specification: the lifecycle guards
\* w1 is a BaseHandler built without a HandleFunc; w2 and the file handlers are
\* the library's own.  Start and Close are called in every state of a handler.
HandlerClose(h) ==
  /\ LET r == HClose(World, h)
     IN /\ Apply(r.w)
        /\ ret' = [ op |-> "Handler.Close", h |-> h, err |-> r.err ]
  /\ UNCHANGED <<defaultLogger, logMsgPool, logger, nextMsg, mu, thr>>

InitGuard ==
  /\ InitWorld([ PkgInit EXCEPT !.h["w1"].hasHandleFunc = FALSE ])
  /\ thr = NoThreads
  /\ logger = [ l \in LoggerIds |-> NoLogger ]

Startable == { "w1", "w2" } \cup { f \in FileInsts : hnd[f].alloc }

GuardCloses == obs["w1"].closeCalls + obs["w2"].closeCalls
                 + obs["f1"].closeCalls + obs["f2"].closeCalls

NextGuard ==
  \/ \E p \in Paths :
       Acquisitions < MaxOwners /\ FreeInsts(World) # {} /\ AcquireFile(p)
  \/ \E h \in Startable : cleanupIdGen < MaxIds /\ HandlerStart(h)
  \/ \E h \in Startable : GuardCloses < MaxCloses /\ HandlerClose(h)
  \/ \E h \in Startable : nextMsg < MaxMsgs /\ HandlerHandle(h)
  \/ \E h \in Startable : WorkerDeliver(h)

SpecGuard == InitGuard /\ [][NextGuard]_vars

\* ------------------------------------- specification: a failing StartFunc
\* NewFileHandler(".") names no file; the location of a stopped file handler may
\* have become a directory.  In both cases StartFunc fails.
DotPath == "."

\* The environment: the log file location of a stopped handler is now a directory.
BecomeDir(f) ==
  /\ hnd[f].alloc /\ ~hnd[f].running /\ ~hnd[f].isDir /\ fileHandlers[hnd[f].path] # f
  /\ hnd' = [ hnd EXCEPT ![f].isDir = TRUE ]
  /\ ret' = [ op |-> "environment", h |-> f ]
  /\ UNCHANGED <<defaultLogger, cleanupIdGen, cleanupFns, fileHandlers, sinks, obs, logMsgPool, logger,
                 nextMsg, mu, thr>>

InitStartFail ==
  /\ InitWorld([ PkgInit EXCEPT !.reg = [ p \in Paths \cup {DotPath} |-> NoHandler ] ])
  /\ thr = NoThreads
  /\ logger = [ l \in LoggerIds |-> NoLogger ]

\* b.wg.Wait() of a Close returns only if the goroutines counted by Start exist.
CloseReturns(h) == hnd[h].running => hnd[h].live # {}

NextStartFail ==
  \/ \E p \in Paths \cup {DotPath} :
       Acquisitions < MaxOwners /\ FreeInsts(World) # {} /\ AcquireFile(p)
  \/ \E h \in FileInsts : CloseReturns(h) /\ OwnerClose(h)
  \/ \E h \in FileInsts :
       hnd[h].alloc /\ hnd[h].logFilename # << "." >> /\ cleanupIdGen < MaxIds + 2 /\ HandlerStart(h)
  \/ \E h \in FileInsts : BecomeDir(h)
  \/ \E h \in FileInsts : nextMsg < MaxMsgs /\ obs[h].owners > 0 /\ HandlerHandle(h)
  \/ \E h \in FileInsts : WorkerDeliver(h)

SpecStartFail == InitStartFail /\ [][NextStartFail]_vars

\* ------------------------------- specification: Close and its wait group
\* One file handler with one owner is running, with rotation off or on.  Its owner
\* hands it messages and closes it while the worker delivers and the rotater
\* ticks; os.Stat and ensureLogFile answer as the file system pleases.
BarrierSizes == { 0, DefaultMaxFileSize }

StatOutcomes == { "found", "recreated", "recreateFailed", "statFailed" }

\* logRotater, lines 160-166: GetMaxFileSize() and GetLogfileLocation() under
\* b.mu.RLock(); a threshold of 0 ends the rotater.
RotaterSize(h) ==
  /\ thr["sub"].pc = "rlock"
  /\ mu[h] = Free
  /\ IF hnd[h].maxFileSize = 0
       THEN /\ Apply(Exit(World, h, "sub"))
            /\ thr' = [ thr EXCEPT !["sub"] = Idle ]
       ELSE /\ Apply(World)
            /\ thr' = [ thr EXCEPT !["sub"].pc = "stat" ]
  /\ ret' = [ op |-> "rotater.size", h |-> h ]
  /\ UNCHANGED <<defaultLogger, logMsgPool, logger, nextMsg, mu>>

\* logRotater, lines 170-190: os.Stat(logPath).  A file that is there and small
\* ends the tick, as does a missing file that ensureLogFile creates again; a
\* failed re-creation returns; any other stat error calls f.wg.Done() and returns,
\* and the goroutine's deferred b.wg.Done() follows.
RotaterStatOutcome(h, o) ==
  /\ thr["sub"].pc = "stat"
  /\ IF o \in { "found", "recreated" }
       THEN /\ Apply(World)
            /\ thr' = [ thr EXCEPT !["sub"].pc = "select" ]
       ELSE /\ Apply(IF o = "statFailed"
                       THEN Exit([ World EXCEPT !.h[h].wg = @ - 1 ], h, "sub")
                       ELSE Exit(World, h, "sub"))
            /\ thr' = [ thr EXCEPT !["sub"] = Idle ]
  /\ ret' = [ op |-> "rotater.stat", h |-> h, outcome |-> o ]
  /\ UNCHANGED <<defaultLogger, logMsgPool, logger, nextMsg, mu>>

InitBarrier ==
  /\ logger = [ l \in LoggerIds |-> NoLogger ]
  /\ \E n \in BarrierSizes :
       InitWorld([ SetMaxFileSize(NewFileHandler(PkgInit, "a.log").w, "f1", n)
                     EXCEPT !.obs["f1"].owners = 1 ])
  /\ thr = [ x \in Threads |->
               IF x \in Clients THEN Idle ELSE [ Idle EXCEPT !.op = "run", !.pc = "select" ] ]

NextBarrier ==
  \/ \E t \in Clients : obs["f1"].closeCalls < MaxCloses /\ CloseLock(t, "f1")
  \/ \E t \in Clients : CloseWait(t, "f1")
  \/ \E t \in Clients : nextMsg < MaxHandles /\ HandleCall(t, "f1")
  \/ \E t \in Clients : HandleRLock(t, "f1")
  \/ \E t \in Clients : HandleSelect(t, "f1")
  \/ WorkerReceive("f1")
  \/ WorkerCancel("f1")
  \/ WorkerDrain("f1")
  \/ RotaterDone("f1")
  \/ RotaterTick("f1")
  \/ RotaterSize("f1")
  \/ \E o \in StatOutcomes : RotaterStatOutcome("f1", o)

SpecBarrier == InitBarrier /\ [][NextBarrier]_vars

\* ----------------------------------- specification: Close, with fairness
\* The handler of SpecBarrier where every goroutine releases the wait group once
\* (no stat failure).  The Go scheduler runs every goroutine that can take a step:
\* weak fairness for the steps of Close, Handle, the worker and the rotater.  The
\* ticker and the callers' decisions to call are not forced.
NextTerminate ==
  \/ \E t \in Clients : obs["f1"].closeCalls < MaxCloses /\ CloseLock(t, "f1")
  \/ \E t \in Clients : CloseWait(t, "f1")
  \/ \E t \in Clients : nextMsg < MaxHandles /\ HandleCall(t, "f1")
  \/ \E t \in Clients : HandleRLock(t, "f1")
  \/ \E t \in Clients : HandleSelect(t, "f1")
  \/ WorkerReceive("f1")
  \/ WorkerCancel("f1")
  \/ WorkerDrain("f1")
  \/ RotaterDone("f1")
  \/ RotaterTick("f1")
  \/ RotaterSize("f1")
  \/ \E o \in StatOutcomes \ {"statFailed"} : RotaterStatOutcome("f1", o)

FairTerminate ==
  /\ WF_vars(\E t \in Clients : CloseWait(t, "f1"))
  /\ WF_vars(\E t \in Clients : HandleRLock(t, "f1"))
  /\ WF_vars(\E t \in Clients : HandleSelect(t, "f1"))
  /\ WF_vars(WorkerReceive("f1"))
  /\ WF_vars(WorkerCancel("f1"))
  /\ WF_vars(WorkerDrain("f1"))
  /\ WF_vars(RotaterDone("f1"))
  /\ WF_vars(RotaterSize("f1"))
  /\ WF_vars(\E o \in StatOutcomes \ {"statFailed"} : RotaterStatOutcome("f1", o))

SpecTerminate == InitBarrier /\ [][NextTerminate]_vars /\ FairTerminate

\* --------------------------------------- specification: the cleanup ids
\* A writer handler is started and closed, a file handler is acquired and closed
\* by its owners, and the registry is run (Sync) in between.
NextIds ==
  \/ cleanupIdGen < MaxIds /\ HandlerStart("w1")
  \/ GuardCloses < MaxCloses /\ HandlerClose("w1")
  \/ \E p \in Paths : Acquisitions < MaxOwners /\ FreeInsts(World) # {} /\ AcquireFile(p)
  \/ \E h \in FileInsts : GuardCloses < MaxCloses /\ OwnerClose(h)
  \/ \E order \in Orders(cleanupFns) : Sync(order)

SpecIds == InitFile /\ [][NextIds]_vars

\* ------------------------- specification: acquisitions racing with Close
\* Two callers acquire the file handler of one path and close what they have
\* acquired; newRefCounted is followed statement by statement.

\* newRefCounted, lines 31-62: fileHandlers.LoadOrStore and the two closures.
AcquireLoad(t, p) ==
  /\ thr[t].pc = "idle"
  /\ LET stored == fileHandlers[p] = NoHandler
         f == IF stored THEN FreshInst(World) ELSE fileHandlers[p]
         W1 == IF stored
                 THEN [ World EXCEPT !.h[f] = [ NewHandler EXCEPT
                                                 !.alloc = TRUE, !.path = p,
                                                 !.logDir = filepathDir(PathText(p)),
                                                 !.logFilename = filepathBase(PathText(p)) ],
                                     !.reg[p] = f ]
                 ELSE World
     IN /\ Apply([ W1 EXCEPT !.h[f].release = TRUE, !.h[f].onReleaseDone = FALSE ])
        /\ thr' = [ thr EXCEPT ![t] = [ op |-> "Acquire", pc |-> "count", m |-> f,
                                        stale |-> FALSE ] ]
        /\ ret' = [ op |-> "LoadOrStore", h |-> f, stored |-> stored ]
  /\ UNCHANGED <<defaultLogger, logMsgPool, logger, nextMsg, mu>>

\* newRefCounted, line 64: atomic.AddInt32(&rh.count, 1); an owner that is not the
\* first returns the handler.
AcquireCount(t) ==
  /\ thr[t].op = "Acquire" /\ thr[t].pc = "count"
  /\ LET f == thr[t].m
         first == hnd[f].count = 0
     IN /\ Apply([ World EXCEPT !.h[f].count = @ + 1,
                                !.obs[f].owners = IF first THEN @ ELSE @ + 1 ])
        /\ thr' = [ thr EXCEPT ![t] = IF first THEN [ @ EXCEPT !.pc = "start" ] ELSE Idle ]
        /\ ret' = IF first THEN [ op |-> "AddInt32", h |-> f ]
                  ELSE [ op |-> "NewFileHandler", h |-> f, err |-> Nil, inst |-> f ]
  /\ UNCHANGED <<defaultLogger, logMsgPool, logger, nextMsg, mu>>

\* newRefCounted, lines 65-71: the first owner starts the handler (Start takes
\* b.mu) and returns it, or deletes the entry when Start fails.
AcquireStart(t) ==
  /\ thr[t].op = "Acquire" /\ thr[t].pc = "start"
  /\ mu[thr[t].m] = Free
  /\ LET f == thr[t].m
         s == HStart(World, f)
         failed == s.err # Nil /\ s.err # ErrAlreadyStarted
     IN /\ Apply(IF failed THEN [ s.w EXCEPT !.reg[hnd[f].path] = NoHandler ]
                 ELSE [ s.w EXCEPT !.obs[f].owners = @ + 1 ])
        /\ ret' = [ op |-> "NewFileHandler", h |-> IF failed THEN NoHandler ELSE f,
                    err |-> IF failed THEN s.err ELSE Nil, inst |-> f ]
  /\ thr' = [ thr EXCEPT ![t] = Idle ]
  /\ UNCHANGED <<defaultLogger, logMsgPool, logger, nextMsg, mu>>

\* An owner's Close: b.mu.Lock() and close() up to b.wg.Wait().
OwnerCloseLock(t, h) ==
  /\ thr[t].pc = "idle"
  /\ obs[h].owners > 0
  /\ mu[h] = Free
  /\ LET c == closeBegin([ World EXCEPT !.obs[h].closeCalls = @ + 1,
                                        !.obs[h].owners = @ - 1 ], h)
     IN /\ Apply(c.w)
        /\ mu' = [ mu EXCEPT ![h] = IF c.done THEN Free ELSE t ]
        /\ thr' = [ thr EXCEPT ![t] = IF c.done THEN Idle
                                      ELSE [ Idle EXCEPT !.op = "Close", !.pc = "wait" ] ]
        /\ ret' = IF c.done THEN [ op |-> "Handler.Close", h |-> h, err |-> c.err ]
                  ELSE [ op |-> "Close.cancelled", h |-> h ]
  /\ UNCHANGED <<defaultLogger, logMsgPool, logger, nextMsg>>

\* The worker and the rotater of a cancelled handler drain the queue and return.
GoroutinesExit(h) ==
  /\ hnd[h].ctxDone /\ hnd[h].live # {}
  /\ Apply(Drained(World, h))
  /\ ret' = [ op |-> "goroutines.exit", h |-> h ]
  /\ UNCHANGED <<defaultLogger, logMsgPool, logger, nextMsg, mu, thr>>

NextPath ==
  \/ \E t \in Clients, p \in Paths :
       /\ Acquisitions + Cardinality({ x \in Clients : thr[x].op = "Acquire" }) < MaxOwners
       /\ (fileHandlers[p] = NoHandler => FreeInsts(World) # {})
       /\ AcquireLoad(t, p)
  \/ \E t \in Clients : AcquireCount(t)
  \/ \E t \in Clients : AcquireStart(t)
  \/ \E t \in Clients, h \in FileInsts : OwnerCloseLock(t, h)
  \/ \E t \in Clients, h \in FileInsts : mu[h] = t /\ CloseWait(t, h)
  \/ \E h \in FileInsts : GoroutinesExit(h)

SpecPath == InitFile /\ [][NextPath]_vars

\* --------------------------------------- specification: the default logger
\* Two callers use the package-level shorthands (Warn(), Info(), ...), each of
\* which asks DefaultLogger() for the logger; no logger has been registered.

\* The Logger object the next Build allocates.
FreshLogger ==
  IF ~logger["L1"].built THEN "L1" ELSE IF ~logger["L2"].built THEN "L2" ELSE "L3"

\* DefaultLogger, lines 54-57: defaultLogger.Load(); a logger that is there is returned.
DefaultLoad(t) ==
  /\ thr[t].pc = "idle"
  /\ thr' = [ thr EXCEPT ![t] =
               IF defaultLogger # NoDefault
                 THEN [ op |-> "Default", pc |-> "use", m |-> defaultLogger, stale |-> FALSE ]
                 ELSE [ op |-> "Default", pc |-> "build", m |-> NoDefault, stale |-> FALSE ] ]
  /\ ret' = IF defaultLogger # NoDefault THEN [ op |-> "DefaultLogger", l |-> defaultLogger ]
            ELSE [ op |-> "DefaultLogger.load" ]
  /\ UNCHANGED <<hnd, cleanupIdGen, cleanupFns, fileHandlers, sinks, obs, logger, nextMsg, mu,
                 logMsgPool, defaultLogger>>

\* DefaultLogger, lines 59-65: NewLogger().Name("default").Build() and logger.Start().
DefaultBuild(t) ==
  /\ thr[t].op = "Default" /\ thr[t].pc = "build"
  /\ LET l == FreshLogger
         b == Build(World, NewBuilder)
         r == LStart(b.w, b.lg)
     IN /\ Apply(r.w)
        /\ logger' = [ logger EXCEPT ![l] = r.lg ]
        /\ thr' = [ thr EXCEPT ![t].pc = "store", ![t].m = l ]
        /\ ret' = [ op |-> "DefaultLogger.build", l |-> l, err |-> Join(b.err, r.err) ]
  /\ UNCHANGED <<nextMsg, mu, logMsgPool, defaultLogger>>

\* DefaultLogger, lines 67-70: defaultLogger.Store(logger), the "default logger
\* started" message at INFO, and the return.
DefaultStore(t) ==
  /\ thr[t].op = "Default" /\ thr[t].pc = "store"
  /\ LET l == thr[t].m
     IN /\ defaultLogger' = l
        /\ Apply(SendLog(World, l, [ id |-> nextMsg + 1, level |-> INFO ]))
        /\ ret' = [ op |-> "DefaultLogger", l |-> l ]
  /\ nextMsg' = nextMsg + 1
  /\ thr' = [ thr EXCEPT ![t].pc = "use" ]
  /\ UNCHANGED <<logger, mu, logMsgPool>>

\* The shorthand's message is sent on the logger DefaultLogger returned.
DefaultSend(t, level) ==
  /\ thr[t].op = "Default" /\ thr[t].pc = "use"
  /\ Apply(SendLog(World, thr[t].m, [ id |-> nextMsg + 1, level |-> level ]))
  /\ ret' = [ op |-> "SendLog", l |-> thr[t].m, level |-> level, id |-> nextMsg + 1 ]
  /\ nextMsg' = nextMsg + 1
  /\ thr' = [ thr EXCEPT ![t] = Idle ]
  /\ UNCHANGED <<logger, mu, logMsgPool, defaultLogger>>

NextDefault ==
  \/ \E t \in Clients : nextMsg < MaxHandles /\ DefaultLoad(t)
  \/ \E t \in Clients : DefaultBuild(t)
  \/ \E t \in Clients : DefaultStore(t)
  \/ \E t \in Clients, level \in { INFO, WARN, ERROR } : DefaultSend(t, level)
  \/ \E h \in { StdoutH, StderrH } : WorkerDeliver(h)

SpecDefault == InitFile /\ [][NextDefault]_vars

\* ------------------------------- specification: a HandleFunc that faults
\* A writer handler is started, handed messages and closed; on any message its
\* HandleFunc may return normally, return an error (the writer fails) or panic.
HandleOutcomes == { "ok", "error", "panic" }

\* Mutant of Deliver: a panic of HandleFunc ends the worker goroutine.
DeliverPanicEndsWorker(W, h, o) ==
  IF o = "ok" THEN WorkerStep(W, h)
  ELSE IF o = "error"
    THEN [ W EXCEPT !.obs[h].delivered = Append(@, Head(W.h[h].logCh).id),
                    !.h[h].logCh = Tail(@) ]
  ELSE Exit([ W EXCEPT !.obs[h].delivered = Append(@, Head(W.h[h].logCh).id),
                       !.h[h].logCh = Tail(@) ], h, "worker")

\* One iteration of logHandler: the message is received and handed to HandleFunc
\* inside noPanicRun; an error is printed and a panic recovered, nothing is
\* written for that message, and the loop goes on.
Deliver(W, h, o) ==
  IF o = "ok" THEN WorkerStep(W, h)
  ELSE [ W EXCEPT !.obs[h].delivered = Append(@, Head(W.h[h].logCh).id),
                  !.h[h].logCh = Tail(@) ]

\* logHandler, lines 197-204, with the outcome of HandleFunc.
FaultReceive(h, o) ==
  /\ thr["worker"].pc = "select"
  /\ hnd[h].logCh # <<>>
  /\ Apply(Deliver(World, h, o))
  /\ ret' = [ op |-> "deliver", h |-> h, loop |-> "run", outcome |-> o,
              id |-> Head(hnd[h].logCh).id ]
  /\ UNCHANGED <<defaultLogger, logMsgPool, logger, nextMsg, mu, thr>>

\* logHandler, lines 185-195, with the outcome of HandleFunc.
FaultDrain(h, o) ==
  /\ thr["worker"].pc = "drain"
  /\ hnd[h].logCh # <<>>
  /\ Apply(Deliver(World, h, o))
  /\ ret' = [ op |-> "deliver", h |-> h, loop |-> "drain", outcome |-> o,
              id |-> Head(hnd[h].logCh).id ]
  /\ UNCHANGED <<defaultLogger, logMsgPool, logger, nextMsg, mu, thr>>

\* logHandler, line 193: the drain loop finds the queue empty and returns.
DrainReturn(h) ==
  /\ thr["worker"].pc = "drain"
  /\ hnd[h].logCh = <<>>
  /\ WorkerDrain(h)

InitFault ==
  /\ InitWorld(HStart(PkgInit, "w1").w)
  /\ logger = [ l \in LoggerIds |-> NoLogger ]
  /\ thr = [ x \in Threads |->
               IF x = "worker" THEN [ Idle EXCEPT !.op = "run", !.pc = "select" ] ELSE Idle ]

NextFault ==
  \/ \E t \in Clients : obs["w1"].closeCalls < MaxCloses /\ CloseLock(t, "w1")
  \/ \E t \in Clients : CloseWait(t, "w1")
  \/ \E t \in Clients : nextMsg < MaxHandles /\ HandleCall(t, "w1")
  \/ \E t \in Clients : HandleRLock(t, "w1")
  \/ \E t \in Clients : HandleSelect(t, "w1")
  \/ \E o \in HandleOutcomes : FaultReceive("w1", o)
  \/ WorkerCancel("w1")
  \/ \E o \in HandleOutcomes : FaultDrain("w1", o)
  \/ DrainReturn("w1")

\* The scheduler runs the worker and a Close that can go on.
FairFault ==
  /\ WF_vars(\E t \in Clients : CloseWait(t, "w1"))
  /\ WF_vars(\E o \in HandleOutcomes : FaultReceive("w1", o))
  /\ WF_vars(WorkerCancel("w1"))
  /\ WF_vars(\E o \in HandleOutcomes : FaultDrain("w1", o))
  /\ WF_vars(DrainReturn("w1"))

SpecFault == InitFault /\ [][NextFault]_vars /\ FairFault

\* ------------------------------ specification: a logger whose Start fails
\* Loggers are built over w2, over w1 (a BaseHandler without a HandleFunc) and
\* over the file a.log, started and closed; the path of a closed file handler
\* may become a directory before its logger is started again.
FailConfigs ==
  { [ NewBuilder EXCEPT !.level = INFO, !.handlers = hs, !.path = p ] :
      hs \in { <<"w2">>, <<"w2", "w1">>, <<"w1", "w2">> }, p \in Paths \cup {NoPath} }

NextLoggerFail ==
  \/ \E l \in { "L1", "L2" }, b \in FailConfigs :
       Builds < MaxBuilds /\ (b.path # NoPath => FreeInsts(World) # {}) /\ BuildLogger(l, b)
  \/ \E l \in { "L1", "L2" } : cleanupIdGen < MaxIds + 2 /\ LoggerStart(l)
  \/ \E l \in { "L1", "L2" } :
       /\ \A h \in Range(logger[l].handlers) : obs[h].closeCalls < MaxCloses /\ CloseReturns(h)
       /\ LoggerClose(l)
  \/ \E h \in FileInsts : BecomeDir(h)

SpecLoggerFail == InitGuard /\ [][NextLoggerFail]_vars

\* ---------------------------------- specification: logging around Sync
\* A logger over the writer handler w1, mirroring to stdout and stderr, is
\* started, used and closed while the program calls Sync().
InitSync ==
  /\ InitWorld(PkgInit)
  /\ thr = NoThreads
  /\ logger = [ l \in LoggerIds |->
                  IF l = "L1"
                    THEN Build(PkgInit, [ NewBuilder EXCEPT !.level = INFO,
                                                            !.handlers = <<"w1">> ]).lg
                    ELSE NoLogger ]

NextSync ==
  \/ cleanupIdGen < MaxIds + 2 /\ LoggerStart("L1")
  \/ obs["w1"].closeCalls < MaxCloses /\ LoggerClose("L1")
  \/ \E level \in { INFO, ERROR } : nextMsg < MaxHandles /\ LoggerSendLog("L1", level)
  \/ \E h \in { "w1", StdoutH, StderrH } : WorkerDeliver(h)
  \/ \E order \in Orders(cleanupFns) : Sync(order)

SpecSync == InitSync /\ [][NextSync]_vars

\* ------------------------------------------------------------------ claims
\* C1. Level filtering in Logger.SendLog: a message whose level is below the
\* logger's threshold is enqueued into no handler at all, attached or default,
\* and no Handle call is made for it; a message at or above the threshold is
\* handed to every attached handler.
C1_LevelFiltering ==
  [][ ret'.op = "SendLog" =>
        LET lg == logger[ret'.l]
        IN /\ ret'.level < lg.level =>
                \A h \in HandlerIds :
                  /\ hnd'[h].logCh = hnd[h].logCh
                  /\ obs'[h].handleCalls = obs[h].handleCalls
           /\ ret'.level >= lg.level =>
                \A h \in Range(lg.handlers) :
                  /\ obs'[h].handleCalls > obs[h].handleCalls
                  /\ hnd[h].running => ret'.id \in { x.id : x \in Range(hnd'[h].logCh) }
    ]_vars

\* C1 witness: a message was sent at the threshold of a started logger, after the
\* threshold was raised to ERROR, and sits in the queue of its handler.
C1_Witness ==
  /\ ret.op = "SendLog"
  /\ ret.level = ERROR
  /\ logger["L1"].level = ERROR
  /\ obs["w1"].accepted = <<ret.id>>
  /\ obs["w1"].handleCalls = 1

\* C2. Fan-out: one SendLog of a message that passes the level filter makes exactly
\* one Handle call per attachment of each handler of the logger, none skipped and
\* none repeated, and each call on a running handler enqueues exactly one copy.
C2_FanOut ==
  [][ (ret'.op = "SendLog" /\ ret'.level >= logger[ret'.l].level) =>
        LET hs == logger[ret'.l].handlers
        IN \A h \in HandlerIds \ {StdoutH, StderrH} :
             /\ obs'[h].handleCalls = obs[h].handleCalls + Count(h, hs)
             /\ hnd[h].running =>
                  Len(hnd'[h].logCh) = Len(hnd[h].logCh) + Count(h, hs)
             /\ Len(obs'[h].accepted) <= Len(obs[h].accepted) + Count(h, hs)
    ]_vars

\* C2 witness: one send has reached both handlers of a two-handler logger.
C2_Witness ==
  /\ ret.op = "SendLog"
  /\ logger["L1"].handlers = <<"w1", "w2">>
  /\ obs["w1"].accepted = <<ret.id>>
  /\ obs["w2"].accepted = <<ret.id>>

\* C8. Idempotent Logger.Close: Close on a logger that is not running returns nil,
\* calls Close on no handler and changes nothing: no handler state, no queue, no
\* written output.
C8_CloseIdempotent ==
  [][ (ret'.op = "Logger.Close" /\ ~logger[ret'.l].running) =>
        /\ ret'.err = Nil
        /\ \A h \in HandlerIds : obs'[h].closeCalls = obs[h].closeCalls
        /\ hnd' = hnd
        /\ sinks' = sinks
        /\ logger' = logger
    ]_vars

\* C8 witness: the second of two Close calls: the logger was started and closed
\* (its handler has seen one Close), and a Close found it not running.
C8_Witness ==
  /\ ret.op = "Logger.Close"
  /\ ~ret.was
  /\ ret.err = Nil
  /\ obs["w1"].closeCalls = 1
  /\ hnd["w1"].chState = "closed"


\* C4: a Close of a running shared file handler by an owner that is not the last
\* returns no error and leaves the handler running, its file open and its path
\* registered; a Close tears the handler down only when it leaves no owner.
C4_SharedFileRefCount ==
  [][ret'.op = "Handler.Close" =>
       LET h == ret'.h
       IN /\ (obs[h].owners >= 2 /\ hnd[h].running) =>
               /\ ret'.err = Nil
               /\ hnd'[h].running
               /\ hnd'[h].filePtr
               /\ fileHandlers'[hnd[h].path] = h
          /\ (hnd[h].filePtr /\ ~hnd'[h].filePtr) => obs'[h].owners = 0]_vars

\* C9: after a successful Build with a file path, the threshold of the acquired
\* file handler is 1 MiB for a requested size of 0, 0 for a requested size of -1,
\* and the requested size when it is positive.
C9_SizeMapping ==
  (ret.op = "Build" /\ ret.err = Nil /\ ret.fh # NoHandler) =>
     hnd[ret.fh].maxFileSize =
       IF ret.size = 0 THEN DefaultMaxFileSize
       ELSE IF ret.size = -1 THEN 0
       ELSE ret.size

\* C10: a Build of an otherwise valid builder with a file path and a requested
\* size below -1 fails with ErrInvalidMaxFileSize and yields no logger.
C10_NegativeSizeFails ==
  (/\ ret.op = "Build"
   /\ ret.path # NoPath
   /\ ret.size < -1
   /\ ret.level > TRACE /\ ret.level <= QUIET) =>
     /\ ret.err = ErrInvalidMaxFileSize
     /\ ~logger[ret.l].built

\* C10 witness: a Build with size -2 acquired the file handler of its path and
\* failed on the size.
C10_Witness ==
  /\ ret.op = "Build"
  /\ ret.size = -2
  /\ ret.err = ErrInvalidMaxFileSize
  /\ fileHandlers["a.log"] = "f1"
  /\ hnd["f1"].count = 1

\* C5: the queue of a handler never holds more than 1024 messages, and a Handle
\* call made while it holds 1024 enqueues nothing and leaves the queue as it was.
C5_BackpressureByDrop ==
  /\ [](\A h \in HandlerIds : Len(hnd[h].logCh) <= 1024)
  /\ [][(ret'.op = "Handle" /\ Len(hnd[ret'.h].logCh) = 1024) =>
          /\ hnd'[ret'.h].logCh = hnd[ret'.h].logCh
          /\ obs'[ret'.h].accepted = obs[ret'.h].accepted
          /\ obs'[ret'.h].handleCalls = obs[ret'.h].handleCalls + 1]_vars

\* C5 witness: a Handle call has returned with the queue full and its message,
\* the newest, in no queue.
C5_Witness ==
  /\ ret.op = "Handle"
  /\ Len(hnd["w1"].logCh) = 1024
  /\ obs["w1"].handleCalls > Len(obs["w1"].accepted)
  /\ \A i \in DOMAIN hnd["w1"].logCh : hnd["w1"].logCh[i].id # ret.id

\* C3: once a Close has gone through the shutdown sequence of a handler (its queue
\* is closed), every message that Handle enqueued has been passed to HandleFunc
\* exactly once: none is lost, none is delivered twice.
C3_DrainOnClose ==
  \A h \in HandlerIds :
    hnd[h].chState = "closed" =>
      \A id \in Range(obs[h].accepted) : Count(id, obs[h].delivered) = 1

\* C6: a Handle call never waits: whenever one stands at its b.mu.RLock(), no
\* other call holds the handler's lock.
C6_HandleNeverSuspends ==
  \A t \in Clients :
    (thr[t].op = "Handle" /\ thr[t].pc = "rlock") => mu[Target] = Free

\* The place of a message in a sequence of distinct messages.
Pos(id, s) == CHOOSE i \in DOMAIN s : s[i] = id

\* C7: the messages of a handler reach HandleFunc in the order in which they were
\* enqueued: what has been delivered is, in the same order, part of what has been
\* enqueued.
C7_FIFO ==
  \A h \in HandlerIds :
    LET d == obs[h].delivered
        a == obs[h].accepted
    IN /\ Range(d) \subseteq Range(a)
       /\ \A i, j \in DOMAIN d : i < j => Pos(d[i], a) < Pos(d[j], a)

\* C7 witness: two callers enqueued their messages in the reverse order of their
\* calls; the worker delivered one from its select and the other, after the
\* cancellation, from its drain loop.
C7_Witness ==
  /\ obs[Target].accepted = <<2, 1>>
  /\ obs[Target].delivered = <<2, 1>>
  /\ ret.op = "deliver"
  /\ ret.loop = "drain"

\* C11: Logger.SetLevel stores the level and returns nil exactly when
\* TRACE <= level <= QUIET, and otherwise returns ErrInvalidLogLevel and leaves the
\* level as it was; Build yields a logger of the level exactly when
\* TRACE < level <= QUIET, and otherwise returns ErrInvalidLogLevel and no logger.
C11_LevelRange ==
  [][/\ ret'.op = "Logger.SetLevel" =>
          IF TRACE <= ret'.level /\ ret'.level <= QUIET
            THEN ret'.err = Nil /\ logger'[ret'.l].level = ret'.level
            ELSE ret'.err = ErrInvalidLogLevel /\ logger'[ret'.l] = logger[ret'.l]
      /\ ret'.op = "Build" =>
          IF TRACE < ret'.level /\ ret'.level <= QUIET
            THEN /\ ret'.err = Nil
                 /\ logger'[ret'.l].built
                 /\ logger'[ret'.l].level = ret'.level
            ELSE ret'.err = ErrInvalidLogLevel /\ ~logger'[ret'.l].built]_vars

\* C11 witness: a Build at TRACE has failed while another logger has been set to
\* TRACE by SetLevel.
C11_Witness ==
  /\ ret.op = "Build"
  /\ ret.level = TRACE
  /\ ret.err = ErrInvalidLogLevel
  /\ ~logger["L2"].built
  /\ logger["L1"].built
  /\ logger["L1"].level = TRACE

\* C12: SetLogfileLocation with a non-empty directory and an empty base returns
\* ErrMissingLogFilename and leaves directory and filename as they were; a call
\* that succeeds stores a filename that ends in exactly one ".log".
C12_SetLogfileLocation ==
  [][ret'.op = "SetLogfileLocation" =>
       LET h == ret'.h
           name == hnd'[h].logFilename
       IN /\ (ret'.dir # << >> /\ ret'.base = << >>) =>
               /\ ret'.err = ErrMissingLogFilename
               /\ hnd'[h].logDir = hnd[h].logDir
               /\ hnd'[h].logFilename = hnd[h].logFilename
          /\ ret'.err = Nil =>
               /\ name # << >>
               /\ name[Len(name)] = ".log"
               /\ Len(name) >= 2 => name[Len(name) - 1] # ".log"]_vars

\* C13: a Fatal send first dispatches the message through SendLog, then runs
\* every per-logger cleanup callback in registration order, then runs the
\* process-wide cleanup registry, and only then ends the process with exit
\* status 1: each callback finds the message already handed to every handler
\* the logger dispatches to and the registry not yet run, the registry has
\* run when the process ends, and nothing happens after the exit.
C13_FatalOrdering ==
  [][ /\ ~Alive => UNCHANGED vars
      /\ (Alive /\ ret'.op = "Fatal") =>
           LET lg == logger[ret'.l]
               sent == ~BelowThreshold(FatalLevel, lg.level)
           IN /\ ret'.exit = 1
              /\ [ i \in DOMAIN ret'.seen |-> ret'.seen[i].fn ] = lg.cleanup
              /\ \A i \in DOMAIN ret'.seen :
                   /\ \A h \in HandlerIds \ { StdoutH, StderrH } :
                        ret'.seen[i].handleCalls[h] =
                          obs[h].handleCalls + (IF sent THEN Count(h, lg.handlers) ELSE 0)
                   /\ ret'.seen[i].fns = cleanupFns
                   /\ ret'.seen[i].running = { h \in HandlerIds : hnd[h].running }
              /\ cleanupFns' = << >>
              /\ \A id \in DOMAIN cleanupFns : ~hnd'[cleanupFns[id]].running
              /\ \A h \in Range(lg.handlers) :
                   (sent /\ hnd[h].running /\ HasRoom(hnd[h].logCh))
                     => ret'.id \in Range(obs'[h].accepted) ]_vars

C13_Witness ==
  /\ ret.op = "Fatal"
  /\ Len(ret.seen) = 2
  /\ { "w1", "w2" } \subseteq ret.seen[1].running
  /\ DOMAIN ret.seen[1].fns # {}
  /\ ret.id \in Range(obs["w1"].delivered)
  /\ ~hnd["w1"].running

\* A run of the registry invokes each registered callback exactly once, whatever
\* the other callbacks return or do, and leaves the registry empty.
RunInvokesEachOnce ==
  [][ ret'.op = "Sync" =>
        /\ \A h \in HandlerIds :
             obs'[h].cbRuns = obs[h].cbRuns
                              + Cardinality({ id \in DOMAIN cleanupFns : cleanupFns[id] = h })
        /\ Len(ret'.outcomes) = Cardinality(DOMAIN cleanupFns)
        /\ cleanupFns' = << >> ]_vars

\* No callback is invoked twice between its registration and the end of the run.
NeverInvokedTwice == \A h \in HandlerIds : obs[h].cbRuns <= 1

\* Unregistering an id that is not in the registry changes nothing.
UnregisterAbsentNoOp ==
  [][ (ret'.op = "unregisterCleanup" /\ ret'.id \notin DOMAIN cleanupFns) =>
        UNCHANGED <<hnd, cleanupIdGen, cleanupFns, fileHandlers, sinks, obs>> ]_vars

\* A run of an empty registry changes nothing.
EmptyRunNoOp ==
  [][ (ret'.op = "Sync" /\ DOMAIN cleanupFns = {}) =>
        UNCHANGED <<hnd, cleanupIdGen, cleanupFns, fileHandlers, sinks, obs>> ]_vars

\* C14: a run of the cleanup registry invokes each callback registered at that
\* moment exactly once and removes it, so no callback is invoked twice over any
\* sequence of runs; a failing or panicking callback does not keep the others
\* from running; a run of an empty registry and unregistering an absent id
\* change nothing.
C14_RegistryRun ==
  /\ RunInvokesEachOnce
  /\ []NeverInvokedTwice
  /\ UnregisterAbsentNoOp
  /\ EmptyRunNoOp

\* A run in which one callback failed, one panicked and a third still ran.
C14_Isolation ==
  /\ ret.op = "Sync"
  /\ Len(ret.outcomes) >= 3
  /\ \E i \in DOMAIN ret.outcomes : ret.outcomes[i].err # Nil
  /\ ret.outcomes[1].panic
  /\ ~hnd["w1"].running /\ obs["w1"].cbRuns = 1

\* C15: when a run of the cleanup registry completes, every handler that was
\* running when it began has gone through its closing sequence: it is no longer
\* running, its context is cancelled, and every message it had queued has been
\* delivered; also for a file handler shared by 1, 2, 3 or more owners.
C15_ShutdownFlush ==
  [][ ret'.op = "Sync" =>
        \A h \in HandlerIds :
          hnd[h].running =>
            /\ ~hnd'[h].running
            /\ hnd'[h].ctxDone
            /\ hnd'[h].logCh = << >>
            /\ Range(obs[h].accepted) \subseteq Range(obs'[h].delivered) ]_vars

\* C16: stream mirroring in SendLog. For a message that passes the level filter
\* of a logger whose threshold is not QUIET: at ERROR or above it is handed to
\* the default stderr handler iff the stderr toggle is on and never to the
\* default stdout handler; below ERROR (WARN included) it is handed to the
\* default stdout handler iff the stdout toggle is on and never to the default
\* stderr handler. With threshold QUIET nothing is mirrored.
C16_Mirroring ==
  [][ ret'.op = "SendLog" =>
        LET lg == logger[ret'.l]
            toStdout == obs'[StdoutH].handleCalls - obs[StdoutH].handleCalls
            toStderr == obs'[StderrH].handleCalls - obs[StderrH].handleCalls
        IN /\ (lg.level # QUIET /\ ret'.level >= lg.level /\ ret'.level >= ERROR) =>
                /\ toStderr = (IF lg.stderrEnabled THEN 1 ELSE 0)
                /\ toStdout = 0
           /\ (lg.level # QUIET /\ ret'.level >= lg.level /\ ret'.level < ERROR) =>
                /\ toStdout = (IF lg.stdoutEnabled THEN 1 ELSE 0)
                /\ toStderr = 0
           /\ lg.level = QUIET => (toStdout = 0 /\ toStderr = 0)
    ]_vars

\* The number of places a line is in: the active file and every archive.
RECURSIVE InArchives(_, _)
InArchives(id, as) ==
  IF as = << >> THEN 0 ELSE Count(id, Head(as)) + InArchives(id, Tail(as))

Places(id) == Count(id, sinks["a.log"]) + InArchives(id, sinks[ArchivesOf("a.log")])

\* C17: at a rotation check with threshold N > 0, a file of size at most N is
\* left alone; a file that exceeds N is archived whole and becomes empty; and,
\* writes and rotation excluding each other under f.muFile, every line written
\* is in exactly one place, one archive or the active file (outside the locked
\* section of a rotation), with later writes landing in the emptied file.
C17_Rotation ==
  /\ [][ /\ (ret'.op = "rotater.stat" /\ ret'.max > 0) =>
             /\ ret'.rotate = (ret'.size > ret'.max)
             /\ sinks' = sinks
             /\ ~ret'.rotate => thr'["sub"].pc = "select"
         /\ ret'.op = "rotater.truncate" =>
             LET as == sinks'[ArchivesOf("a.log")]
             IN /\ Len(as) = Len(sinks[ArchivesOf("a.log")])
                /\ as[Len(as)] = sinks["a.log"]
                /\ sinks'["a.log"] = << >>
         /\ (ret'.op = "deliver" /\ hnd["f1"].muFile = Free) =>
             sinks'["a.log"] = Append(sinks["a.log"], ret'.id)
         /\ ret'.op \notin { "deliver", "rotater.archive", "rotater.truncate" } =>
             sinks' = sinks ]_vars
  /\ [](hnd["f1"].muFile = Free =>
          \A id \in Range(obs["f1"].delivered) : Places(id) = 1)

C17_Witness ==
  /\ hnd["f1"].muFile = Free
  /\ Len(sinks[ArchivesOf("a.log")]) = 2
  /\ Len(sinks[ArchivesOf("a.log")][1]) = 3
  /\ sinks["a.log"] = << 6 >>
  /\ obs["f1"].delivered = << 1, 2, 3, 4, 5, 6 >>
  /\ hnd["f1"].maxFileSize = 1

\* C18: whatever was acquired and released before, a message returned by
\* acquire carries exactly the timestamp, level, text, trace, caller and
\* metadata of its source and the given logger name, and the pool holds no
\* metadata pair, trace, caller or logger name of a released message.
C18_PoolHygiene ==
  /\ ret.op = "acquire" =>
       /\ ret.lm.Timestamp = ret.src.Timestamp
       /\ ret.lm.Level = ret.src.Level
       /\ ret.lm.Message = ret.src.Message
       /\ ret.lm.trace = ret.src.trace
       /\ ret.lm.caller = ret.src.caller
       /\ ret.lm.Meta = ret.src.Meta
       /\ ret.lm.loggerName = ret.name
  /\ \A lm \in logMsgPool :
       lm.Meta = << >> /\ lm.trace = "" /\ lm.caller = "" /\ lm.loggerName = ""

\* C18 witness: the plain message m1 was acquired under the name L2 into an
\* object that had carried the message m2, with its pairs, trace and caller,
\* under another name.
C18_Witness ==
  /\ ret.op = "acquire"
  /\ ret.from.Message = "m2"
  /\ ret.from.metaCap >= 2
  /\ ret.src.Message = "m1"
  /\ ret.name = "L2"
  /\ ret.lm.Meta = << >>

\* s is t from position i on.
PartAt(s, i, t) == i + Len(t) - 1 <= Len(s) /\ SubSeq(s, i, i + Len(t) - 1) = t

\* C19: the text String returns ends in exactly one newline, whatever the
\* number of newlines the message text ends in (0 to 3) and whether or not
\* metadata, a trace or a caller is attached; with metadata attached the line
\* holds one brace block with one K=V item per pair, in attachment order,
\* separated by commas.
C19_RenderingShape ==
  ret.op = "String" =>
    LET out == ret.out
        meta == ret.lm.Meta
    IN /\ out[Len(out)] = NL
       /\ Len(out) > 1 => out[Len(out) - 1] # NL
       /\ meta # << >> =>
            /\ Cardinality({ i \in DOMAIN out : out[i] = " {" }) = 1
            /\ \E i \in DOMAIN out :
                 PartAt(out, i, << " {" >> \o JoinMeta(meta) \o << "}" >>)
            /\ Cardinality({ i \in DOMAIN out : out[i] = "=" }) = Len(meta)

\* C20: Logger.Start on a running logger fails with AlreadyStarted and changes
\* nothing; on a logger that is not running it calls Start on every attached
\* handler in order, a handler's AlreadyStarted counting as success: handlers
\* that were running are left as they were, the others are started in the order
\* of the list, the call returns no error and the logger is running.
C20_LoggerStart ==
  [][ ret'.op = "Logger.Start" =>
        LET l == ret'.l
            lg == logger[l]
            hs == lg.handlers
        IN /\ lg.running =>
                /\ ret'.err = ErrAlreadyStarted
                /\ UNCHANGED <<hnd, cleanupIdGen, cleanupFns, fileHandlers, sinks, obs, logger>>
           /\ ~lg.running =>
                /\ ret'.err = Nil
                /\ logger'[l] = [ lg EXCEPT !.running = TRUE ]
                /\ \A h \in Range(hs) :
                     /\ hnd'[h].running
                     /\ hnd[h].running => hnd'[h] = hnd[h]
                /\ \A i, j \in DOMAIN hs :
                     (i < j /\ hs[i] # hs[j] /\ ~hnd[hs[i]].running /\ ~hnd[hs[j]].running)
                       => hnd'[hs[i]].cleanupId < hnd'[hs[j]].cleanupId
                /\ \A h \in HandlerIds \ Range(hs) : hnd'[h] = hnd[h] ]_vars

\* C20 witness: the logger L2 has just started without error although every one
\* of its handlers, the shared file handler among them, was already running
\* for the running logger L1.
C20_Witness ==
  /\ ret.op = "Logger.Start" /\ ret.l = "L2" /\ ret.err = Nil
  /\ logger["L1"].running /\ logger["L2"].running
  /\ logger["L1"].handlers = << "w1", "w2", "f1" >>
  /\ logger["L2"].handlers = << "w2", "w1", "f1" >>
  /\ hnd["f1"].count = 2
  /\ cleanupIdGen = 5

\* C21: Logger.Close treats a handler's NotStarted as success: closing a running
\* logger whose handlers have already been stopped by someone else returns no
\* error, and no NotStarted of a handler reaches the caller.
C21_CloseToleratesNotStarted ==
  [][ (ret'.op = "Logger.Close" /\ ret'.was) =>
        /\ "ErrNotStarted" \notin Range(ret'.err)
        /\ (\A h \in Range(logger[ret'.l].handlers) : ~hnd[h].running) => ret'.err = Nil
    ]_vars

\* C22: the lifecycle guards of a handler.  Start on a running handler returns
\* AlreadyStarted, Start on a handler without a HandleFunc returns
\* InvalidLogHandler, Close on a handler that is not running returns NotStarted,
\* and in each of these cases the handler (running flag, queue, context, workers,
\* cleanup id), the cleanup registry and everything a hook would touch (the file
\* registry, the owner count, the open file, the sinks) are left as they were.
GuardedStep ==
  \/ ret'.op = "Handler.Start" /\ (hnd[ret'.h].running \/ ~hnd[ret'.h].hasHandleFunc)
  \/ ret'.op = "Handler.Close" /\ ~hnd[ret'.h].running

C22_LifecycleGuards ==
  [][ /\ (ret'.op = "Handler.Start" /\ hnd[ret'.h].running) => ret'.err = ErrAlreadyStarted
      /\ (ret'.op = "Handler.Start" /\ ~hnd[ret'.h].running /\ ~hnd[ret'.h].hasHandleFunc)
            => ret'.err = ErrInvalidLogHandler
      /\ (ret'.op = "Handler.Close" /\ ~hnd[ret'.h].running) => ret'.err = ErrNotStarted
      /\ GuardedStep =>
            /\ hnd' = hnd
            /\ cleanupFns' = cleanupFns /\ cleanupIdGen' = cleanupIdGen
            /\ fileHandlers' = fileHandlers /\ sinks' = sinks
            /\ obs'[ret'.h].delivered = obs[ret'.h].delivered
    ]_vars

\* A file handler that is no longer running has been closed once more.
C22_Witness ==
  /\ ret.op = "Handler.Close" /\ ret.err = ErrNotStarted
  /\ Kind(ret.h) = "file" /\ hnd[ret.h].alloc /\ cleanupFns # << >>

\* A handler without a HandleFunc has been started.
C22_WitnessInvalid ==
  ret.op = "Handler.Start" /\ ret.err = ErrInvalidLogHandler /\ hnd["w2"].running

\* C23: when StartFunc fails, Start returns that error and nothing is launched:
\* no delivery worker, no subprocess goroutine, and no entry in the cleanup
\* registry.
StartFuncFailed(e) == e \in { ErrMissingLogFilename, FailedToOpen(ErrFoundDirWhenExpectingFile) }

C23_FailedStartFuncLaunchesNothing ==
  [][ /\ (ret'.op = "Handler.Start" /\ ~hnd[ret'.h].running
            /\ StartFunc(World, ret'.h).err # Nil) =>
            /\ ret'.err = StartFunc(World, ret'.h).err
            /\ hnd'[ret'.h].live = {}
            /\ cleanupFns' = cleanupFns
            /\ \A i \in DOMAIN cleanupFns' : cleanupFns'[i] # ret'.h
            /\ hnd'[ret'.h].cleanupId = 0
      /\ (ret'.op \in { "Handler.Start", "NewFileHandler" } /\ StartFuncFailed(ret'.err)) =>
            LET h == IF ret'.op = "NewFileHandler" THEN ret'.inst ELSE ret'.h
            IN /\ hnd'[h].live = {}
               /\ cleanupFns' = cleanupFns
               /\ \A i \in DOMAIN cleanupFns' : cleanupFns'[i] # h
    ]_vars

\* A stopped file handler whose location became a directory has been started.
C23_Witness ==
  /\ ret.op = "Handler.Start" /\ ret.err = FailedToOpen(ErrFoundDirWhenExpectingFile)
  /\ hnd[ret.h].live = {}

\* NewFileHandler(".") has failed.
C23_WitnessDot ==
  ret.op = "NewFileHandler" /\ ret.err = ErrMissingLogFilename /\ fileHandlers[DotPath] = NoHandler

\* C24: SkipClose aborts the close.  When CancelPreFunc returns ErrSkipClose, Close
\* returns no error and the engine is as it was: the handler is still running,
\* its cleanup id and the cleanup registry are untouched, its context is not
\* cancelled, CancelPostFunc and CloseFunc have not run (the file is still open
\* and registered), its workers are alive and its queue is open with its content;
\* only the hook's own owner count has changed.  ErrSkipClose never reaches the
\* caller of Close.
SkipsClose(h) == hnd[h].running /\ CancelPreFunc(World, h).err = ErrSkipClose

C24_SkipCloseAborts ==
  [][ ret'.op = "Handler.Close" =>
        /\ "ErrSkipClose" \notin Range(ret'.err)
        /\ SkipsClose(ret'.h) =>
             /\ ret'.err = Nil
             /\ hnd'[ret'.h] = [ hnd[ret'.h] EXCEPT !.count = @ - 1 ]
             /\ hnd'[ret'.h].running /\ ~hnd'[ret'.h].ctxDone
             /\ hnd'[ret'.h].chState = "open" /\ hnd'[ret'.h].live = Goroutines(ret'.h)
             /\ hnd'[ret'.h].filePtr
             /\ cleanupFns' = cleanupFns /\ cleanupIdGen' = cleanupIdGen
             /\ fileHandlers' = fileHandlers /\ sinks' = sinks
             /\ obs'[ret'.h].delivered = obs[ret'.h].delivered
    ]_vars

\* An owner that was not the last has closed the shared handler, which goes on
\* running with its cleanup callback registered.
C24_Witness ==
  /\ ret.op = "Handler.Close" /\ ret.err = Nil
  /\ hnd[ret.h].running /\ hnd[ret.h].count >= 1 /\ obs[ret.h].closeCalls >= 1
  /\ hnd[ret.h].cleanupId \in DOMAIN cleanupFns /\ cleanupFns[hnd[ret.h].cleanupId] = ret.h

\* C25: the close sequence and its completion barrier.  While Close waits for the
\* goroutines the handler is already marked not running, deregistered and
\* cancelled, and CloseFunc and the closing of the queue are still to come; they
\* come only after the delivery worker and every subprocess have exited, however
\* the subprocess exits; and each goroutine releases the wait group once, so its
\* count never falls below zero.
Closing(h) == \E t \in Clients : thr[t].op = "Close" /\ thr[t].pc = "wait" /\ mu[h] = t

C25_CloseBarrier ==
  \A h \in FileInsts :
    /\ hnd[h].wg >= 0
    /\ (hnd[h].chState = "closed" \/ hnd[h].onReleaseDone) => hnd[h].live = {}
    /\ Closing(h) =>
         /\ ~hnd[h].running /\ hnd[h].cleanupId = 0 /\ hnd[h].ctxDone
         /\ \A i \in DOMAIN cleanupFns : cleanupFns[i] # h
         /\ hnd[h].chState = "open" /\ ~hnd[h].onReleaseDone

\* C26: Close terminates.  A Close that has begun to tear a running handler down
\* (it holds b.mu and waits for the goroutines) eventually returns, under every
\* interleaving with the delivery worker and the rotation subprocess.
C26_CloseTerminates ==
  \A t \in Clients :
    (thr[t].op = "Close" /\ thr[t].pc = "wait") ~> (thr[t].pc = "idle")

\* C27: Handle is a no-op outside the running state.  Whenever a Handle call puts
\* a message into the queue, the handler is running and its context is not
\* cancelled at that moment, under every interleaving with Start and Close.
C27_HandleOnlyWhileRunning ==
  [][ \A h \in HandlerIds :
        obs'[h].accepted # obs[h].accepted => (hnd[h].running /\ ~hnd[h].ctxDone)
    ]_vars

\* The id generator only counts upwards.
IdsMonotonic == [][ cleanupIdGen' >= cleanupIdGen ]_vars

\* No two handlers hold the same cleanup id.
HoldersDistinct ==
  \A h1, h2 \in HandlerIds :
    (h1 # h2 /\ hnd[h1].cleanupId # 0) => hnd[h1].cleanupId # hnd[h2].cleanupId

\* A Close removes from the registry at most the callback of the handler closed.
CloseRemovesOwn ==
  [][ ret'.op = "Handler.Close" =>
        \A i \in DOMAIN cleanupFns \ DOMAIN cleanupFns' : cleanupFns[i] = ret'.h ]_vars

\* C28: cleanup ids are generated monotonically and so are unique per registration
\* over the whole life of the process: the generator never goes back, no two
\* components hold the same id, and unregistering the id of one component never
\* removes the callback of another, under any sequence of register, unregister,
\* Start, Close and registry runs.
C28_UniqueCleanupIds ==
  /\ IdsMonotonic
  /\ []HoldersDistinct
  /\ CloseRemovesOwn

\* Every handler an acquisition returns is running and is the instance registered
\* for its path when the acquisition returns.
ReturnedIsRegistered ==
  [][ (ret'.op = "NewFileHandler" /\ ret'.err = Nil) =>
        /\ hnd'[ret'.h].running
        /\ fileHandlers'[hnd'[ret'.h].path] = ret'.h ]_vars

\* No two distinct running FileHandler instances have the same path.
OneRunningPerPath ==
  \A f, g \in FileInsts :
    (f # g /\ hnd[f].alloc /\ hnd[g].alloc /\ hnd[f].running /\ hnd[g].running)
       => hnd[f].path # hnd[g].path

\* C29: one handler per path.  Under every interleaving of NewFileHandler and
\* Close for a path, an acquisition that races the last owner's teardown
\* included, every handler returned by an acquisition is running and is the
\* instance registered for the path at that moment, and never are two distinct
\* FileHandler instances running for the same path.
C29_OneHandlerPerPath ==
  /\ ReturnedIsRegistered
  /\ []OneRunningPerPath

\* At most one default Logger has been constructed and started.
OneDefaultBuilt == Cardinality({ l \in LoggerIds : logger[l].built }) <= 1

\* Every call of DefaultLogger returns the registered instance, which, once
\* registered, stays the same.
SameDefault ==
  [][ /\ ret'.op = "DefaultLogger" => ret'.l = defaultLogger'
      /\ defaultLogger # NoDefault => defaultLogger' = defaultLogger ]_vars

\* C30: single default logger.  With no logger registered, lazy initialisation
\* constructs and starts exactly one default Logger, and every DefaultLogger call
\* returns that same instance, also when several threads make the first use
\* concurrently.
C30_SingleDefaultLogger ==
  /\ []OneDefaultBuilt
  /\ SameDefault

\* A delivery on which HandleFunc fails or panics leaves the worker in its loop,
\* the handler's running flag and wait group as they were and the rest of the
\* queue in place.
FaultKeepsWorker ==
  [][ (ret'.op = "deliver" /\ ret'.outcome # "ok") =>
        /\ "worker" \in hnd'[ret'.h].live
        /\ thr'["worker"] = thr["worker"]
        /\ hnd'[ret'.h].running = hnd[ret'.h].running
        /\ hnd'[ret'.h].wg = hnd[ret'.h].wg
        /\ hnd'[ret'.h].logCh = Tail(hnd[ret'.h].logCh) ]_vars

\* What the worker has handed to HandleFunc is, in order, a prefix of what was
\* enqueued: no message is skipped or overtaken because an earlier one faulted.
DeliveredInOrder ==
  LET d == obs["w1"].delivered
      a == obs["w1"].accepted
  IN Len(d) <= Len(a) /\ d = SubSeq(a, 1, Len(d))

\* A message that is in the queue while the worker is alive is handed to HandleFunc.
QueuedIsDelivered ==
  \A id \in 1..(MaxHandles + 1) :
    ((\E i \in DOMAIN hnd["w1"].logCh : hnd["w1"].logCh[i].id = id) /\ "worker" \in hnd["w1"].live)
       ~> (id \in Range(obs["w1"].delivered))

\* A Close that waits for the worker returns.
FaultCloseReturns ==
  \A t \in Clients : (thr[t].op = "Close" /\ thr[t].pc = "wait") ~> (thr[t].pc = "idle")

\* C31: per-message fault isolation.  When HandleFunc panics or returns an error on
\* a message, the delivery worker keeps running, the messages enqueued after it
\* are still delivered in order, the handler stays running, and a later Close
\* still completes.
C31_FaultIsolation ==
  /\ FaultKeepsWorker
  /\ []DeliveredInOrder
  /\ QueuedIsDelivered
  /\ FaultCloseReturns

\* The first message made HandleFunc panic, the second was written, and a Close
\* after that has returned.
C31_Witness ==
  /\ ret.op = "Handler.Close" /\ ret.err = Nil
  /\ obs["w1"].delivered = <<1, 2>> /\ sinks["w1"] = <<2>>
  /\ hnd["w1"].chState = "closed" /\ hnd["w1"].live = {}

\* C32: a failed handler Start leaves the handler not started.  After Start has
\* returned a StartFunc error IsRunning reports false, and a Start answers
\* ErrAlreadyStarted only for a handler whose workers were launched (so a Start
\* after a failed one attempts the start again, and a Close after it has no
\* workers to wait for).
C32_FailedStartNotStarted ==
  /\ (ret.op = "Handler.Start" /\ StartFuncFailed(ret.err)) => ~hnd[ret.h].running
  /\ (ret.op = "Handler.Start" /\ ret.err = ErrAlreadyStarted) => hnd[ret.h].live # {}

\* C33: a failed Logger.Start leaves the logger not running.  After Start has
\* returned an error of one of its handlers (an error other than
\* ErrAlreadyStarted) IsRunning reports false, so that a later Start attempts
\* the start again.
C33_FailedLoggerStartNotRunning ==
  (ret.op = "Logger.Start" /\ ret.err # Nil /\ ret.err # ErrAlreadyStarted)
     => ~logger[ret.l].running

\* C34: a failed Build has no lasting effect on the shared file-handler registry.
\* When Build returns ErrInvalidMaxFileSize or ErrInvalidLogLevel the registry
\* holds the same entries with the same owner counts as before the call, and no
\* file handler that the Build started is left running.
C34_FailedBuildLeavesRegistry ==
  [][ (ret'.op = "Build" /\ ret'.err \in { ErrInvalidMaxFileSize, ErrInvalidLogLevel }) =>
        /\ fileHandlers' = fileHandlers
        /\ \A f \in FileInsts :
             /\ hnd'[f].count = hnd[f].count
             /\ hnd'[f].running => hnd[f].running ]_vars

\* C35: no send on a closed queue.  Under every interleaving of Handle with Close
\* on the same handler, the select of Handle never takes its send case on a queue
\* that Close has closed, and never enqueues a message when the worker has
\* already left its drain loop.
C35_NoSendOnClosedQueue ==
  [][ /\ (ret'.op = "Handle" /\ ret'.case = "panic") => hnd[ret'.h].chState # "closed"
      /\ \A h \in HandlerIds :
           obs'[h].accepted # obs[h].accepted =>
             ~(hnd[h].ctxDone /\ "worker" \notin hnd[h].live)
    ]_vars

\* C36: logging survives Sync.  In every reachable state, also after a Sync() has
\* returned, a logger that reports IsRunning = true has all of its attached
\* handlers running, and the default stream handlers it mirrors to are running,
\* so that a message sent then is delivered to them.
C36_RunningLoggerHasRunningHandlers ==
  \A l \in LoggerIds :
    (logger[l].built /\ logger[l].running) =>
       /\ \A h \in Range(logger[l].handlers) : hnd[h].running
       /\ logger[l].stdoutEnabled => hnd[StdoutH].running
       /\ logger[l].stderrEnabled => hnd[StderrH].running

====
